---------------------------- MODULE Spec2Model ----------------------------
(***************************************************************************)
(* A model of signal-axon's multi-bot routing and consistency engine:      *)
(*   - SignalSpeechEffector.splitMessage        (the chunker)              *)
(*   - SignalAfferent.connect/scheduleReconnect (reconnection backoff)     *)
(*   - MessageDeduplicator                      (first-receiver table)     *)
(*   - MessageConsistencyReceptor               (missed-delivery repair)   *)
(*   - SignalMessageReceptor.transform          (roster-wide routing)      *)
(* Each component has a specification of its own (SpecChunk, SpecConn,     *)
(* SpecDedup, SpecCons, SpecRouter); the variables of the other components *)
(* keep their initial values under it.                                     *)
(***************************************************************************)
EXTENDS Integers, Sequences, FiniteSets, TLC

VARIABLES
    \* ---- SignalSpeechEffector (chunker) ----
    content,            \* the text handed to splitMessage
    maxMessageLength,   \* this.maxMessageLength
    chunks,             \* the value splitMessage returned
    splitDone,          \* splitMessage has returned
    \* ---- the clock ----
    now,                \* Date.now(), in milliseconds
    \* ---- SignalAfferent (one bot's connection) ----
    started,            \* onStart has run
    stopped,            \* onStop has run
    wsRef,              \* this.state.ws is set
    sock,               \* the WebSocket made by the last connect():
                        \*   "none", "connecting", "open", "closing", "closed"
    connected,          \* this.state.connected
    retryCount,         \* this.state.retryCount
    firstReconnectAttempt, \* this.state.firstReconnectAttempt (or Undefined)
    maxReconnectTime,   \* this.maxReconnectTime
    reconnectTimers,    \* pending setTimeout callbacks of scheduleReconnect:
                        \*   records [dueAt, delay]
    errorEvents,        \* 'afferent:error' events emitted (recoverable: false)
    scheduledDelays,    \* history: the delays scheduled since the last
                        \*   successful open (or give-up), oldest first
    closesSinceOpen,    \* history: close events handled since the last open
    firstCloseAt,       \* history: the time of the first of them
    \* ---- MessageDeduplicator (the process-wide singleton) ----
    seenMessages,       \* Map messageId -> [firstReceiver, timestamp]
    lastCleanup,        \* this.lastCleanup
    lastCall,           \* history: the last shouldEmit call and its result
    claimedAt,          \* history: per messageId, when shouldEmit last
                        \*   returned true for a deduplicated call
    claimedBy,          \* history: ... and for which bot
    \* ---- MessageConsistencyReceptor ----
    feedMessage,        \* the group message being broadcast to the bots
    messageTrackers,    \* Map messageId -> MessageTracker
    consistencyTimers,  \* pending setTimeout callbacks: [messageId, dueAt]
    trackerCreated,     \* history: per messageId, when its current tracker
                        \*   was created and from which payload
    lastCheck,          \* history: the last deadline evaluation
    \* ---- SignalMessageReceptor and SignalCommandEffector ----
    config,             \* this.config of the receptor (botNames and botUuids
                        \*   are the fixed roster)
    messageFacets,      \* state.facets, the message events: Map messageId ->
                        \*   [content, streamId, speaker, botPhone]
    profileFacets,      \* ... the user-profile facets, in insertion order
    streamFacets,       \* ... the ids of the stream-definition facets
    activationFacets,   \* ... the agent-activation facets:
                        \*   Map <<botPhone, timestamp>> -> facet state
    commandFacets,      \* ... the signal-command facets: Map timestamp -> state
    counterFacets,      \* ... the bot-interaction counters:
                        \*   Map <<botPhone, streamId>> -> count
    speechFacets,       \* ... the speech facets that carry an agentId (the
                        \*   bots' own speech): Map streamId -> their number
    pendingCommands,    \* the added signal-command facets the command
                        \*   effector has not yet processed
    routerEvents,       \* the number of signal:message events processed
    lastTransform,      \* history: the last transform call and the state
                        \*   it read
    maxLimitSeen,       \* history: the largest bot-to-bot limit configured
                        \*   so far
    \* ---- SignalSpeechEffector.detectMentions and the inbound decoding ----
    mentionInput,       \* the text handed to detectMentions
    mentionProfiles,    \* the user-profile facets of state.facets
    encoded,            \* the value detectMentions returned: [text, mentions]
    decoded,            \* that text and those mentions as the inbound
                        \*   receptor decodes them
    mentionStage,       \* "input", "encoded" or "decoded"
    \* ---- SignalSpeechEffector.process and sendSpeech ----
    groupIdCache,       \* this.groupIdCache: the internal group ids whose
                        \*   external id is cached
    posted,             \* the axios.post requests of the last process call,
                        \*   in order: [facet, index, number, recipient,
                        \*   message, mentions, ok]
    sendEvents,         \* the events array of the last process call
    changesLeft,        \* the changes of that call not yet handled
    sending,            \* the send loop of the sendSpeech call awaited:
                        \*   its chunks, mentions and position
    lastProcess,        \* history: the last process call, its changes and
                        \*   whether it has returned
    processCalls,       \* the number of process calls made
    \* ---- SignalAfferent.handleMessage ----
    frameEvents,        \* the events emitted for frames, oldest first:
                        \*   [topic, frame] with frame the frame's number
    lastFrame,          \* history: the last frame handled, whether the
                        \*   handler raised an error, and what the frame
                        \*   before it parsed to
    framesHandled       \* the number of frames handled

chunkVars == <<content, maxMessageLength, chunks, splitDone>>

connVars == <<started, stopped, wsRef, sock, connected, retryCount,
              firstReconnectAttempt, maxReconnectTime, reconnectTimers,
              errorEvents, scheduledDelays, closesSinceOpen, firstCloseAt>>

dedupVars == <<seenMessages, lastCleanup, lastCall, claimedAt, claimedBy>>

consVars == <<feedMessage, messageTrackers, consistencyTimers,
              trackerCreated, lastCheck>>

routerVars == <<config, messageFacets, profileFacets, streamFacets,
                activationFacets, commandFacets, counterFacets, speechFacets,
                pendingCommands, routerEvents, lastTransform, maxLimitSeen>>

mentionVars == <<mentionInput, mentionProfiles, encoded, decoded,
                 mentionStage>>

sendVars == <<groupIdCache, posted, sendEvents, changesLeft, sending,
              lastProcess, processCalls>>

frameVars == <<frameEvents, lastFrame, framesHandled>>

vars == <<chunkVars, now, connVars, dedupVars, consVars, routerVars,
          mentionVars, sendVars, frameVars>>

Min(a, b) == IF a <= b THEN a ELSE b
Max(a, b) == IF a >= b THEN a ELSE b

(***************************************************************************)
(* Strings are sequences of one-character strings.                         *)
(***************************************************************************)
\* The characters String.prototype.trim removes (of those the model uses).
Whitespace == {" ", "\n"}

\* The alphabet of the texts the chunker is applied to.
ChunkAlphabet == {"a", ".", " ", "\n"}

\* s.substring(from, to): code units from..to-1, both clamped to the length.
Substring(s, from, to) ==
    SubSeq(s, Min(from, Len(s)) + 1, Min(to, Len(s)))

\* s.substring(from): the rest of the string.
SubstringFrom(s, from) == SubSeq(s, Min(from, Len(s)) + 1, Len(s))

\* s.trim(): s without its leading and trailing whitespace.
Trim(s) ==
    LET keep == {i \in 1..Len(s) : s[i] \notin Whitespace}
    IN  IF keep = {} THEN <<>>
        ELSE LET lo == CHOOSE i \in keep : \A j \in keep : i <= j
                 hi == CHOOSE i \in keep : \A j \in keep : j <= i
             IN  SubSeq(s, lo, hi)

\* s.lastIndexOf(pat, from): the greatest 0-based index i <= from at which
\* pat occurs in s, or -1.
LastIndexOf(s, pat, from) ==
    LET hits == {i \in 0..Min(from, Len(s) - Len(pat)) :
                    \A k \in 1..Len(pat) : s[i + k] = pat[k]}
    IN  IF hits = {} THEN -1
        ELSE CHOOSE i \in hits : \A j \in hits : j <= i

\* `idx > maxLen * 0.7` (exact for the lengths the model uses: the double
\* product equals the real one whenever it is an integer).
PastSeventyPercent(idx, maxLen) == 10 * idx > 7 * maxLen

\* The break point splitMessage picks for one cut of `remaining`.
BreakPoint(remaining, maxLen) ==
    LET lastNewline == LastIndexOf(remaining, <<"\n">>, maxLen)
        lastPeriod  == LastIndexOf(remaining, <<".", " ">>, maxLen)
        lastSpace   == LastIndexOf(remaining, <<" ">>, maxLen)
    IN  IF PastSeventyPercent(lastNewline, maxLen) THEN lastNewline + 1
        ELSE IF PastSeventyPercent(lastPeriod, maxLen) THEN lastPeriod + 2
        ELSE IF PastSeventyPercent(lastSpace, maxLen) THEN lastSpace + 1
        ELSE maxLen

\* The text left over after one cut, as a plausible slip would compute it
\* (one code unit past the break point is skipped).
RestAfterCutSkipping(remaining, breakPoint) ==
    Trim(SubstringFrom(remaining, breakPoint + 1))

\* remaining = remaining.substring(breakPoint).trim()
RestAfterCut(remaining, breakPoint) ==
    Trim(SubstringFrom(remaining, breakPoint))

\* The while loop of splitMessage.
RECURSIVE SplitLoop(_, _, _)
SplitLoop(remaining, maxLen, acc) ==
    IF Len(remaining) = 0 THEN acc
    ELSE IF Len(remaining) <= maxLen THEN Append(acc, remaining)
    ELSE LET bp == BreakPoint(remaining, maxLen)
         IN  SplitLoop(RestAfterCut(remaining, bp), maxLen,
                       Append(acc, Trim(Substring(remaining, 0, bp))))

\* splitMessage(content)
splitMessage(text, maxLen) ==
    IF Len(text) <= maxLen THEN <<text>>
    ELSE SplitLoop(text, maxLen, <<>>)

\* Bounds of the chunker's inputs.
MaxTextLen == 7
MaxChunkLen == 4

\* The default of `config.maxMessageLength || 400`.
DefaultMaxMessageLength == 400

\* The constructor: this.maxMessageLength = config.maxMessageLength || 400
\* (a configured 0 is falsy and selects the default).
ConfiguredMaxLength(cfg) == IF cfg = 0 THEN DefaultMaxMessageLength ELSE cfg

SeqsUpTo(S, n) == UNION {[1..k -> S] : k \in 0..n}

ChunkIdle ==
    /\ content = <<>>
    /\ maxMessageLength = DefaultMaxMessageLength
    /\ chunks = <<>>
    /\ splitDone = FALSE

ChunkInit ==
    /\ content \in SeqsUpTo(ChunkAlphabet, MaxTextLen)
    /\ \E cfg \in 0..MaxChunkLen : maxMessageLength = ConfiguredMaxLength(cfg)
    /\ chunks = <<>>
    /\ splitDone = FALSE

\* One call of splitMessage(content).
SplitMessage ==
    /\ ~splitDone
    /\ chunks' = splitMessage(content, maxMessageLength)
    /\ splitDone' = TRUE
    /\ UNCHANGED <<content, maxMessageLength>>
    /\ UNCHANGED <<now, connVars, dedupVars, consVars, routerVars, mentionVars,
                   sendVars, frameVars>>

ChunkNext == SplitMessage


(***************************************************************************)
(* SignalAfferent: the WebSocket connection of one bot and its             *)
(* reconnection policy.                                                    *)
(***************************************************************************)
\* The value of an optional field that is not set.
Undefined == -1

\* private maxReconnectTime = 5 * 60 * 1000
DefaultMaxReconnectTime == 300000

\* The backoff's base and its cap, in milliseconds.
BackoffBase == 1000
BackoffCap == 30000

\* The clock value the connection model starts at, and the time up to which
\* it is explored.
StartTime == 1000
MaxTime == 70000

\* onInitialize: this.maxReconnectTime = config.maxReconnectTime || default
ConfiguredMaxReconnectTime(cfg) ==
    IF cfg = 0 THEN DefaultMaxReconnectTime ELSE cfg

\* The configured maxReconnectTime values explored (0: not configured).
ReconnectTimeConfigs == {0, 3000, 64000}

\* A backoff without the 30 s cap.
UncappedBackoffDelay(retries) == BackoffBase * 2 ^ retries

\* Math.min(1000 * Math.pow(2, this.state.retryCount), 30000)
BackoffDelay(retries) == Min(BackoffBase * 2 ^ retries, BackoffCap)

\* A first-attempt tracker that stamps the sequence at its second drop too.
FirstAttemptTrackedTwice(retries, first, t) == IF retries <= 1 THEN t ELSE first

\* A first-attempt tracker that restamps the sequence on every drop.
FirstAttemptRestamped(retries, first, t) == t

\* if (this.state.retryCount === 0) this.state.firstReconnectAttempt = now
FirstAttemptTracked(retries, first, t) == IF retries = 0 THEN t ELSE first

\* An elapsed time measured from the drop at hand.
ElapsedTimeOfThisDrop(first, t) == t - t

\* const firstAttemptTime = this.state.firstReconnectAttempt || now;
\* const elapsedTime = now - firstAttemptTime
ElapsedTime(first, t) == t - (IF first = Undefined \/ first = 0 THEN t ELSE first)

ConnIdle ==
    /\ started = FALSE
    /\ stopped = FALSE
    /\ wsRef = FALSE
    /\ sock = "none"
    /\ connected = FALSE
    /\ retryCount = 0
    /\ firstReconnectAttempt = Undefined
    /\ maxReconnectTime = DefaultMaxReconnectTime
    /\ reconnectTimers = {}
    /\ errorEvents = 0
    /\ scheduledDelays = <<>>
    /\ closesSinceOpen = 0
    /\ firstCloseAt = Undefined

ConnInit ==
    /\ started = FALSE
    /\ stopped = FALSE
    /\ wsRef = FALSE
    /\ sock = "none"
    /\ connected = FALSE
    /\ retryCount = 0
    /\ firstReconnectAttempt = Undefined
    /\ \E cfg \in ReconnectTimeConfigs :
           maxReconnectTime = ConfiguredMaxReconnectTime(cfg)
    /\ reconnectTimers = {}
    /\ errorEvents = 0
    /\ scheduledDelays = <<>>
    /\ closesSinceOpen = 0
    /\ firstCloseAt = Undefined

\* connect(): a new WebSocket, stored in this.state.ws.
Connect ==
    /\ sock' = "connecting"
    /\ wsRef' = TRUE

\* onStart(): await this.connect()
OnStart ==
    /\ ~started
    /\ started' = TRUE
    /\ Connect
    /\ UNCHANGED <<stopped, connected, retryCount, firstReconnectAttempt,
                   maxReconnectTime, reconnectTimers, errorEvents,
                   scheduledDelays, closesSinceOpen, firstCloseAt>>
    /\ UNCHANGED <<chunkVars, now, dedupVars, consVars, routerVars, mentionVars,
                   sendVars, frameVars>>

\* ws.on('open'): the connection is established.
WsOpen ==
    /\ sock = "connecting"
    /\ sock' = "open"
    /\ connected' = TRUE
    /\ retryCount' = 0
    /\ firstReconnectAttempt' = Undefined
    /\ scheduledDelays' = <<>>
    /\ closesSinceOpen' = 0
    /\ firstCloseAt' = Undefined
    /\ UNCHANGED <<started, stopped, wsRef, maxReconnectTime, reconnectTimers,
                   errorEvents>>
    /\ UNCHANGED <<chunkVars, now, dedupVars, consVars, routerVars, mentionVars,
                   sendVars, frameVars>>

\* ws.on('close'): the attempt failed, the connection dropped, or onStop
\* closed the socket; the handler runs scheduleReconnect().
WsClose ==
    /\ sock \in {"connecting", "open", "closing"}
    /\ sock' = "closed"
    /\ connected' = FALSE
    /\ closesSinceOpen' = closesSinceOpen + 1
    /\ firstCloseAt' = IF closesSinceOpen = 0 THEN now ELSE firstCloseAt
    /\ LET first == FirstAttemptTracked(retryCount, firstReconnectAttempt, now)
       IN  IF ElapsedTime(first, now) >= maxReconnectTime
           THEN \* give up
                /\ retryCount' = 0
                /\ firstReconnectAttempt' = Undefined
                /\ errorEvents' = errorEvents + 1
                /\ scheduledDelays' = <<>>
                /\ UNCHANGED reconnectTimers
           ELSE /\ firstReconnectAttempt' = first
                /\ reconnectTimers' = reconnectTimers \cup
                       {[dueAt |-> now + BackoffDelay(retryCount),
                         delay |-> BackoffDelay(retryCount)]}
                /\ scheduledDelays' =
                       Append(scheduledDelays, BackoffDelay(retryCount))
                /\ UNCHANGED <<retryCount, errorEvents>>
    /\ UNCHANGED <<started, stopped, wsRef, maxReconnectTime>>
    /\ UNCHANGED <<chunkVars, now, dedupVars, consVars, routerVars, mentionVars,
                   sendVars, frameVars>>

\* The setTimeout callback of scheduleReconnect: retryCount++; connect().
ReconnectTimerFires ==
    /\ \E t \in reconnectTimers :
          /\ now >= t.dueAt
          /\ reconnectTimers' = reconnectTimers \ {t}
    /\ retryCount' = retryCount + 1
    /\ Connect
    /\ UNCHANGED <<started, stopped, connected, firstReconnectAttempt,
                   maxReconnectTime, errorEvents, scheduledDelays,
                   closesSinceOpen, firstCloseAt>>
    /\ UNCHANGED <<chunkVars, now, dedupVars, consVars, routerVars, mentionVars,
                   sendVars, frameVars>>

\* onStop(): close the socket, if any, and forget it.
OnStop ==
    /\ started
    /\ ~stopped
    /\ stopped' = TRUE
    /\ sock' = IF wsRef /\ sock \in {"connecting", "open"} THEN "closing"
               ELSE sock
    /\ wsRef' = FALSE
    /\ connected' = FALSE
    /\ UNCHANGED <<started, retryCount, firstReconnectAttempt,
                   maxReconnectTime, reconnectTimers, errorEvents,
                   scheduledDelays, closesSinceOpen, firstCloseAt>>
    /\ UNCHANGED <<chunkVars, now, dedupVars, consVars, routerVars, mentionVars,
                   sendVars, frameVars>>

\* Time passes (timers may fire late, never early).
ConnTick ==
    /\ now < MaxTime
    /\ now' = now + 1000
    /\ UNCHANGED <<chunkVars, connVars, dedupVars, consVars,
                   routerVars, mentionVars, sendVars, frameVars>>

ConnNext ==
    \/ OnStart
    \/ WsOpen
    \/ WsClose
    \/ ReconnectTimerFires
    \/ OnStop
    \/ ConnTick

(***************************************************************************)
(* SignalAfferent against a server that accepts the first connection at    *)
(* most: every reconnect attempt ends in a close event.                    *)
(***************************************************************************)
\* The time up to which the failing reconnection is explored: past the
\* default window of five minutes and the last backoff after it.
FailMaxTime == 400000

\* The connection that onStart made opens.
FirstOpen == closesSinceOpen = 0 /\ retryCount = 0 /\ WsOpen

\* A connection attempt fails, or onStop's close completes: the close event
\* of a socket that is not open.
AttemptFails == sock # "open" /\ WsClose

\* By how much a reconnect timer is explored to fire late.
MaxTimerLateness == 1000

\* Time passes while a reconnect timer is pending (it may fire late).
FailTick ==
    /\ \E t \in reconnectTimers : now < t.dueAt + MaxTimerLateness
    /\ now < FailMaxTime
    /\ now' = now + 1000
    /\ UNCHANGED <<chunkVars, connVars, dedupVars, consVars,
                   routerVars, mentionVars, sendVars, frameVars>>

FailNext ==
    \/ OnStart
    \/ FirstOpen
    \/ WsClose
    \/ ReconnectTimerFires
    \/ OnStop
    \/ FailTick

\* The event loop delivers the close event of a failed attempt and runs a
\* due setTimeout callback, and time passes.
FailFairness ==
    /\ WF_vars(AttemptFails)
    /\ WF_vars(ReconnectTimerFires)
    /\ WF_vars(FailTick)

(***************************************************************************)
(* MessageDeduplicator: which bot's arrival of a group message is emitted. *)
(***************************************************************************)
\* The bots of the roster (their phone numbers).
Bots == {"b1", "b2", "b3"}

\* The messageIds (`${source}-${timestamp}`) presented to the deduplicator.
DedupMessageIds == {"m1", "m2"}

\* private readonly TTL = 10000; CLEANUP_INTERVAL = 5000
TTL == 10000
CLEANUP_INTERVAL == 5000

\* The time up to which the deduplicator is explored.
DedupMaxTime == 13500

\* lastCall before any call; `called` is set by every call, and
\* prevClaimAge is the age, at the call, of the message's previous claim.
NoCall == [called |-> FALSE, messageId |-> "", botPhone |-> "",
           isGroupMessage |-> FALSE, isReprocessed |-> FALSE,
           result |-> FALSE, prevClaimAge |-> Undefined]

DedupInit ==
    /\ seenMessages = <<>>
    /\ lastCleanup = now
    /\ lastCall = NoCall
    /\ claimedAt = [id \in DedupMessageIds |-> Undefined]
    /\ claimedBy = [id \in DedupMessageIds |-> ""]

\* The map m without key k.
MapRemove(f, ks) == [k \in DOMAIN f \ ks |-> f[k]]

\* The map m with key k set to v.
MapSet(f, k, v) == [x \in DOMAIN f \cup {k} |-> IF x = k THEN v ELSE f[x]]

\* An expiry test that forgets a record as soon as it is a sweep old.
ExpiredAfterInterval(timestamp, t) == timestamp < t - CLEANUP_INTERVAL

\* data.timestamp < expiry, with expiry = now - this.TTL
Expired(timestamp, t) == timestamp < t - TTL

\* cleanupIfNeeded(): the table after the amortised sweep run at time t.
CleanedUp(seen, cleanedAt, t) ==
    IF t - cleanedAt < CLEANUP_INTERVAL THEN seen
    ELSE MapRemove(seen, {id \in DOMAIN seen : Expired(seen[id].timestamp, t)})

\* ... and the value of lastCleanup after it.
CleanupStamp(cleanedAt, t) ==
    IF t - cleanedAt < CLEANUP_INTERVAL THEN cleanedAt ELSE t

\* A deduplicator that also deduplicates replays.
BypassesDeduplicationDirectOnly(isGroupMessage, isReprocessed) ==
    ~isGroupMessage

\* A deduplicator that also deduplicates direct messages.
BypassesDeduplicationReplaysOnly(isGroupMessage, isReprocessed) ==
    isReprocessed

\* The two early returns of shouldEmit: `if (!isGroupMessage) return true`
\* and `if (isReprocessed) return true`, both before cleanupIfNeeded().
BypassesDeduplication(isGroupMessage, isReprocessed) ==
    ~isGroupMessage \/ isReprocessed

\* shouldEmit(messageId, botPhone, isGroupMessage, isReprocessed)
shouldEmit(messageId, botPhone, isGroupMessage, isReprocessed) ==
    LET swept == CleanedUp(seenMessages, lastCleanup, now)
        bypass == BypassesDeduplication(isGroupMessage, isReprocessed)
        result == bypass \/ messageId \notin DOMAIN swept
    IN  /\ seenMessages' =
              IF bypass THEN seenMessages
              ELSE IF messageId \in DOMAIN swept THEN swept
              ELSE MapSet(swept, messageId,
                          [firstReceiver |-> botPhone, timestamp |-> now])
        /\ lastCleanup' = IF bypass THEN lastCleanup
                          ELSE CleanupStamp(lastCleanup, now)
        /\ lastCall' = [called |-> TRUE, messageId |-> messageId,
                        botPhone |-> botPhone,
                        isGroupMessage |-> isGroupMessage,
                        isReprocessed |-> isReprocessed, result |-> result,
                        prevClaimAge |->
                            IF claimedAt[messageId] = Undefined THEN Undefined
                            ELSE now - claimedAt[messageId]]
        /\ claimedAt' = IF ~bypass /\ result
                        THEN [claimedAt EXCEPT ![messageId] = now]
                        ELSE claimedAt
        /\ claimedBy' = IF ~bypass /\ result
                        THEN [claimedBy EXCEPT ![messageId] = botPhone]
                        ELSE claimedBy

\* A bot's connection asks whether to emit its arrival of a message.
ShouldEmitCall ==
    /\ \E id \in DedupMessageIds, b \in Bots, grp \in BOOLEAN, re \in BOOLEAN :
          shouldEmit(id, b, grp, re)
    /\ UNCHANGED <<chunkVars, now, connVars, consVars, routerVars, mentionVars,
                   sendVars, frameVars>>

DedupTick ==
    /\ now < DedupMaxTime
    /\ now' = now + 2500
    /\ UNCHANGED <<chunkVars, connVars, dedupVars, consVars,
                   routerVars, mentionVars, sendVars, frameVars>>

DedupNext == ShouldEmitCall \/ DedupTick

(***************************************************************************)
(* The roster and the identities that appear in messages.                  *)
(***************************************************************************)
\* config.botNames / config.botUuids: Maps keyed by the bots' phone numbers,
\* iterated in insertion order.
BotOrder == <<"b1", "b2", "b3">>
botNames == ("b1" :> "Ann") @@ ("b2" :> "Bo") @@ ("b3" :> "Cy")
botUuids == ("b1" :> "U1") @@ ("b2" :> "U2") @@ ("b3" :> "U3")

\* A human user: phone number and UUID.
UserPhone == "alice"
UserUuid == "UA"

\* An absent quote.
NoQuote == [present |-> FALSE, authorUuid |-> "", author |-> ""]

\* Mention records {uuid?, number?} ("" is an absent field).  A record names
\* one account: a bot by its UUID or by its number, the user by both.
MentionChoices ==
    {[uuid |-> botUuids["b1"], number |-> ""],
     [uuid |-> botUuids["b2"], number |-> ""],
     [uuid |-> "", number |-> "b2"],
     [uuid |-> UserUuid, number |-> UserPhone]}

QuoteChoices ==
    {NoQuote,
     [present |-> TRUE, authorUuid |-> botUuids["b2"], author |-> ""],
     [present |-> TRUE, authorUuid |-> "", author |-> "b3"],
     [present |-> TRUE, authorUuid |-> UserUuid, author |-> UserPhone]}

\* The longest mention list explored.
MaxMentions == 2

(***************************************************************************)
(* MessageConsistencyReceptor: which bots received a group message, and    *)
(* the repair of a targeted bot that did not.                              *)
(***************************************************************************)
\* private readonly CONSISTENCY_CHECK_DELAY = 2000
CONSISTENCY_CHECK_DELAY == 2000

\* The number of seconds for which the consistency receptor is explored.
ConsMaxTicks == 4

\* The group messages of the feed: from the user, with any mention list and
\* quote.
FeedMessages ==
    {[source |-> src[1], sourceUuid |-> src[2], timestamp |-> 1,
      groupId |-> "g1", mentions |-> ms, quote |-> q] :
        src \in {<<UserPhone, UserUuid>>},
        ms \in SeqsUpTo(MentionChoices, MaxMentions),
        q \in QuoteChoices}

\* The signal:message payload of message msg as delivered by bot's connection.
Payload(msg, bot) ==
    [botPhone |-> bot, source |-> msg.source, sourceUuid |-> msg.sourceUuid,
     timestamp |-> msg.timestamp, groupId |-> msg.groupId,
     mentions |-> msg.mentions, quote |-> msg.quote]

\* const messageId = `${source}-${timestamp}`
MessageIdOf(payload) == <<payload.source, payload.timestamp>>

NoCheck == [done |-> FALSE, messageId |-> <<>>, receivedBy |-> {},
            calls |-> <<>>, armedDelay |-> Undefined, firstPayload |-> <<>>]

ConsIdle ==
    /\ feedMessage = <<>>
    /\ messageTrackers = <<>>
    /\ consistencyTimers = {}
    /\ trackerCreated = <<>>
    /\ lastCheck = NoCheck

ConsInit ==
    /\ feedMessage \in FeedMessages
    /\ messageTrackers = <<>>
    /\ consistencyTimers = {}
    /\ trackerCreated = <<>>
    /\ lastCheck = NoCheck

\* MessageConsistencyReceptor.transform(event)
ConsistencyTransform(payload) ==
    IF payload.groupId = ""
    THEN UNCHANGED <<messageTrackers, consistencyTimers, trackerCreated>>
    ELSE LET id == MessageIdOf(payload)
             isBotMessage ==
                 \E b \in DOMAIN botUuids : botUuids[b] = payload.sourceUuid
             fresh == [messageId |-> id, timestamp |-> payload.timestamp,
                       receivedBy |-> {}, mentions |-> payload.mentions,
                       quote |-> payload.quote, messagePayload |-> payload,
                       isBotMessage |-> isBotMessage]
             tracker == IF id \in DOMAIN messageTrackers
                        THEN messageTrackers[id] ELSE fresh
         IN  /\ messageTrackers' =
                   MapSet(messageTrackers, id,
                          [tracker EXCEPT !.receivedBy = @ \cup {payload.botPhone}])
             /\ consistencyTimers' =
                   IF id \in DOMAIN messageTrackers THEN consistencyTimers
                   ELSE consistencyTimers \cup
                        {[messageId |-> id,
                          dueAt |-> now + CONSISTENCY_CHECK_DELAY]}
             /\ trackerCreated' =
                   IF id \in DOMAIN messageTrackers THEN trackerCreated
                   ELSE MapSet(trackerCreated, id,
                               [at |-> now, payload |-> payload])

\* The first bot, in the order of config.botUuids, that a {uuid, number}
\* pair names; "" if none (the inner for loop with its break).
RECURSIVE FirstBotNamed(_, _, _)
FirstBotNamed(order, uuid, number) ==
    IF order = <<>> THEN ""
    ELSE IF \/ (uuid # "" /\ uuid = botUuids[Head(order)])
            \/ (number # "" /\ number = Head(order))
         THEN Head(order)
         ELSE FirstBotNamed(Tail(order), uuid, number)

\* s with x appended unless it is already there (Set.add, insertion order).
AddOnce(s, x) == IF \E i \in 1..Len(s) : s[i] = x THEN s ELSE Append(s, x)

\* The bots of botNames not in receivedBy.
MissingBots(receivedBy) == {b \in DOMAIN botNames : b \notin receivedBy}

\* The mentioned bots that missed the message, in insertion order.
RECURSIVE MentionedMissing(_, _, _)
MentionedMissing(mentions, missing, acc) ==
    IF mentions = <<>> THEN acc
    ELSE LET bot == FirstBotNamed(BotOrder, Head(mentions).uuid,
                                  Head(mentions).number)
         IN  MentionedMissing(Tail(mentions), missing,
                              IF bot # "" /\ bot \in missing
                              THEN AddOnce(acc, bot) ELSE acc)

\* A repair that looks at the mentions only.
TargetedMissingMentionsOnly(tracker) ==
    MentionedMissing(tracker.mentions, MissingBots(tracker.receivedBy), <<>>)

\* A repair of every bot that missed the message.
TargetedMissingOrNot(tracker) ==
    SelectSeq(BotOrder, LAMBDA b : b \in MissingBots(tracker.receivedBy))

\* targetedMissingBots: the mentioned, then the quoted, missing bots.
TargetedMissing(tracker) ==
    LET missing == MissingBots(tracker.receivedBy)
        mentioned == MentionedMissing(tracker.mentions, missing, <<>>)
        quoted == IF tracker.quote.present
                  THEN FirstBotNamed(BotOrder, tracker.quote.authorUuid,
                                     tracker.quote.author)
                  ELSE ""
    IN  IF quoted # "" /\ quoted \in missing
        THEN AddOnce(mentioned, quoted) ELSE mentioned

\* The reconnectBot(botPhone, tracker.messagePayload) calls of one evaluation.
ReconnectCalls(tracker) ==
    LET targeted == TargetedMissing(tracker)
    IN  IF MissingBots(tracker.receivedBy) = {} THEN <<>>
        ELSE [i \in 1..Len(targeted) |->
                 [botPhone |-> targeted[i],
                  queuedMessage |-> tracker.messagePayload]]

\* A bot's arrival of the feed's message is reported to the receptor.
ConsArrival ==
    /\ \E b \in Bots : ConsistencyTransform(Payload(feedMessage, b))
    /\ UNCHANGED <<feedMessage, lastCheck>>
    /\ UNCHANGED <<chunkVars, now, connVars, dedupVars, routerVars,
                   mentionVars, sendVars, frameVars>>

\* A direct message is reported: it is not tracked.
ConsDirectArrival ==
    /\ \E b \in Bots :
          ConsistencyTransform([Payload(feedMessage, b) EXCEPT !.groupId = ""])
    /\ UNCHANGED <<feedMessage, lastCheck>>
    /\ UNCHANGED <<chunkVars, now, connVars, dedupVars, routerVars,
                   mentionVars, sendVars, frameVars>>

\* The deadline timer fires: checkConsistency(messageId).
CheckConsistency ==
    /\ \E t \in consistencyTimers :
          /\ now >= t.dueAt
          /\ consistencyTimers' = consistencyTimers \ {t}
          /\ IF t.messageId \notin DOMAIN messageTrackers
             THEN UNCHANGED <<messageTrackers, lastCheck>>
             ELSE LET tracker == messageTrackers[t.messageId]
                  IN  /\ messageTrackers' =
                            MapRemove(messageTrackers, {t.messageId})
                      /\ lastCheck' =
                            [done |-> TRUE, messageId |-> t.messageId,
                             receivedBy |-> tracker.receivedBy,
                             calls |-> ReconnectCalls(tracker),
                             armedDelay |->
                                 t.dueAt - trackerCreated[t.messageId].at,
                             firstPayload |->
                                 trackerCreated[t.messageId].payload]
    /\ UNCHANGED <<feedMessage, trackerCreated>>
    /\ UNCHANGED <<chunkVars, now, connVars, dedupVars, routerVars,
                   mentionVars, sendVars, frameVars>>

ConsTick ==
    /\ now < StartTime + 1000 * ConsMaxTicks
    /\ now' = now + 1000
    /\ UNCHANGED <<chunkVars, connVars, dedupVars, consVars,
                   routerVars, mentionVars, sendVars, frameVars>>

ConsNext ==
    \/ ConsArrival
    \/ ConsDirectArrival
    \/ CheckConsistency
    \/ ConsTick

(***************************************************************************)
(* SignalMessageReceptor: the roster-wide routing of one signal:message    *)
(* event, and SignalCommandEffector, which applies the !rr / !bb commands  *)
(* to the receptor's configuration.                                        *)
(***************************************************************************)
\* U+FFFC, the placeholder Signal puts where a mention stands.
FFFC == "#"

\* The characters of the names that are spliced into message texts.
Chars ==
    ("Ann" :> <<"A", "n", "n">>) @@ ("Bo" :> <<"B", "o">>) @@
    ("Cy" :> <<"C", "y">>) @@ ("Al" :> <<"A", "l">>) @@
    ("alice" :> <<"a", "l", "i", "c", "e">>) @@
    ("user" :> <<"u", "s", "e", "r">>)

\* String.prototype.toLowerCase, on the letters the model uses.
ToLowerCase(s) ==
    [i \in 1..Len(s) |->
        CASE s[i] = "B" -> "b" [] s[i] = "H" -> "h" [] s[i] = "R" -> "r"
          [] OTHER -> s[i]]

StartsWith(s, c) == Len(s) > 0 /\ s[1] = c

\* s without its leading whitespace.
RECURSIVE TrimStart(_)
TrimStart(s) ==
    IF s # <<>> /\ Head(s) \in Whitespace THEN TrimStart(Tail(s)) ELSE s

\* message.replace(/^￼\s*/g, ''): one leading placeholder and the
\* whitespace after it.
StripLeadingPlaceholder(s) ==
    IF StartsWith(s, FFFC) THEN TrimStart(Tail(s)) ELSE s

\* The index of the first whitespace character of s, or Len(s) + 1.
FirstWhitespace(s) ==
    IF \E i \in 1..Len(s) : s[i] \in Whitespace
    THEN CHOOSE i \in 1..Len(s) :
            /\ s[i] \in Whitespace
            /\ \A j \in 1..(i - 1) : s[j] \notin Whitespace
    ELSE Len(s) + 1

\* parts.slice(1).join(' '): the words after the first, one space between.
RECURSIVE JoinWords(_)
JoinWords(s) ==
    LET t == TrimStart(s)
        w == FirstWhitespace(t)
    IN  IF t = <<>> THEN <<>>
        ELSE LET rest == JoinWords(SubSeq(t, w, Len(t)))
             IN  SubSeq(t, 1, w - 1) \o
                 (IF rest = <<>> THEN <<>> ELSE <<" ">> \o rest)

NoCommand == [isCommand |-> FALSE, command |-> <<>>, args |-> <<>>]

\* SignalMessageReceptor.parseCommand(message)
parseCommand(message) ==
    IF message = <<>> THEN NoCommand
    ELSE LET cleaned == Trim(StripLeadingPlaceholder(message))
             w == FirstWhitespace(cleaned)
         IN  IF ~StartsWith(cleaned, "!") THEN NoCommand
             ELSE [isCommand |-> TRUE,
                   command |-> ToLowerCase(SubSeq(cleaned, 1, w - 1)),
                   args |-> Trim(JoinWords(SubSeq(cleaned, w, Len(cleaned))))]

\* The commands transform recognises.
RecognisedCommands ==
    {<<"!", "r", "r">>, <<"!", "b", "b">>, <<"!", "m", "f">>,
     <<"!", "h", "e", "l", "p">>}

\* parseInt's result for a text with no leading number.
NaN == -1000

Digits == ("0" :> 0) @@ ("1" :> 1) @@ ("2" :> 2) @@ ("3" :> 3) @@ ("4" :> 4) @@
          ("5" :> 5) @@ ("6" :> 6) @@ ("7" :> 7) @@ ("8" :> 8) @@ ("9" :> 9)

\* The value of the longest prefix of s made of digits, given the value acc
\* of the digits already read.
RECURSIVE DigitsValue(_, _)
DigitsValue(s, acc) ==
    IF s # <<>> /\ Head(s) \in DOMAIN Digits
    THEN DigitsValue(Tail(s), 10 * acc + Digits[Head(s)])
    ELSE acc

\* parseInt(args): an optional sign, then the leading digits.
ParseInt(args) ==
    LET s == TrimStart(args)
        negative == StartsWith(s, "-")
        body == IF negative \/ StartsWith(s, "+") THEN Tail(s) ELSE s
    IN  IF body = <<>> \/ Head(body) \notin DOMAIN Digits THEN NaN
        ELSE IF negative THEN 0 - DigitsValue(body, 0)
             ELSE DigitsValue(body, 0)

\* this.config.maxBotMentionsPerConversation ?? 10
DefaultMaxBotMentions == 10
MaxBotMentions(cfg) ==
    IF cfg.maxBotMentionsPerConversation = Undefined
    THEN DefaultMaxBotMentions
    ELSE cfg.maxBotMentionsPerConversation

\* this.config.groupPrivacyMode || 'opt-in'
GroupPrivacyMode(cfg) ==
    IF cfg.groupPrivacyMode = "" THEN "opt-in" ELSE cfg.groupPrivacyMode

\* this.config.randomReplyChance || 0
RandomReplyChance(cfg) ==
    IF cfg.randomReplyChance = Undefined THEN 0 ELSE cfg.randomReplyChance

\* The configurations the receptor is constructed with.
RouterConfigs ==
    [groupPrivacyMode : {"", "opt-out"},
     randomReplyChance : {Undefined},
     maxBotMentionsPerConversation : {Undefined, 1}]
    \cup
    [groupPrivacyMode : {""},
     randomReplyChance : {2},
     maxBotMentionsPerConversation : {Undefined}]

\* A mention of a bot by its UUID, with the placeholder at offset start.
MentionOf(b, start) ==
    [uuid |-> botUuids[b], number |-> "", start |-> start, length |-> 1]

\* A mention of a bot by its phone number only.
MentionByNumber(b, start) ==
    [uuid |-> "", number |-> b, start |-> start, length |-> 1]

QuoteOf(b) == [present |-> TRUE, authorUuid |-> botUuids[b], author |-> ""]

\* An inbound message as every bot connection reports it (the payload
\* without botPhone and __reprocessed).
Msg(source, sourceUuid, groupId, message, mentions, quote, timestamp) ==
    [source |-> source, sourceUuid |-> sourceUuid, sourceName |-> "",
     groupId |-> groupId, message |-> message, mentions |-> mentions,
     quote |-> quote, timestamp |-> timestamp]

TextHi == <<"h", "i">>
TextDotHi == <<".", "h", "i">>
TextMentionHi == <<FFFC, " ", "h", "i">>
TextHelp == <<FFFC, " ", "!", "h", "e", "l", "p">>
TextSetLimit == <<FFFC, " ", "!", "B", "B", " ", "0">>

\* The messages of the feed.  Each has its own timestamp, so that processing
\* one again is a replay of it.
HumanHello == Msg(UserPhone, UserUuid, "g1", TextHi, <<>>, NoQuote, 1)
HumanMention ==
    Msg(UserPhone, UserUuid, "g1", TextMentionHi, <<MentionOf("b2", 0)>>,
        NoQuote, 2)
HumanDotted == Msg(UserPhone, UserUuid, "g1", TextDotHi, <<>>, NoQuote, 3)
HumanHelp ==
    Msg(UserPhone, UserUuid, "g1", TextHelp, <<MentionOf("b2", 0)>>, NoQuote, 4)
HumanSetLimit ==
    Msg(UserPhone, UserUuid, "g1", TextSetLimit, <<MentionByNumber("b2", 0)>>,
        NoQuote, 5)
HumanDirect == Msg(UserPhone, UserUuid, "", TextHi, <<>>, NoQuote, 6)
HumanQuote == Msg(UserPhone, UserUuid, "g1", TextHi, <<>>, QuoteOf("b3"), 7)
BotMention ==
    Msg("b1", botUuids["b1"], "g1", TextMentionHi, <<MentionOf("b2", 0)>>,
        NoQuote, 8)
BotMentionByNumber ==
    Msg("b3", botUuids["b3"], "g1", TextMentionHi,
        <<MentionByNumber("b2", 0)>>, NoQuote, 9)
BotSelfMention ==
    Msg("b1", botUuids["b1"], "g1", TextMentionHi, <<MentionOf("b1", 0)>>,
        QuoteOf("b2"), 10)
BotSelfMentionNoUuid ==
    Msg("b1", "", "g1", TextMentionHi, <<MentionOf("b1", 0)>>, NoQuote, 11)

\* The signal:message payload.
RouterPayload(msg, bot, reprocessed) ==
    [botPhone |-> bot, source |-> msg.source, sourceUuid |-> msg.sourceUuid,
     sourceName |-> msg.sourceName, groupId |-> msg.groupId,
     message |-> msg.message, mentions |-> msg.mentions, quote |-> msg.quote,
     timestamp |-> msg.timestamp, reprocessed |-> reprocessed]

\* The events of the feed: each message as its first receiver reports it,
\* and some of them again as another bot reports them or as the
\* consistency receptor replays them.
RouterPayloads ==
    {RouterPayload(HumanHello, "b1", FALSE),
     RouterPayload(HumanMention, "b2", FALSE),
     RouterPayload(HumanMention, "b3", FALSE),
     RouterPayload(HumanMention, "b2", TRUE),
     RouterPayload(HumanDotted, "b1", FALSE),
     RouterPayload(HumanHelp, "b1", FALSE),
     RouterPayload(HumanSetLimit, "b2", FALSE),
     RouterPayload(HumanDirect, "b2", FALSE),
     RouterPayload(HumanDirect, "b3", FALSE),
     RouterPayload(HumanQuote, "b1", FALSE),
     RouterPayload(BotMention, "b2", FALSE),
     RouterPayload(BotMention, "b3", TRUE),
     RouterPayload(BotMentionByNumber, "b1", FALSE),
     RouterPayload(BotSelfMention, "b3", FALSE),
     RouterPayload(BotSelfMentionNoUuid, "b2", FALSE)}

\* The number of signal:message events explored.
MaxRouterEvents == 3

\* isBotMentioned(phone)
isBotMentioned(phone, mentions) ==
    \E i \in 1..Len(mentions) :
        \/ (botUuids[phone] # "" /\ mentions[i].uuid = botUuids[phone])
        \/ mentions[i].number = phone

\* isBotQuoted(phone)
isBotQuoted(phone, quote) ==
    /\ quote.present
    /\ \/ (botUuids[phone] # "" /\ quote.authorUuid = botUuids[phone])
       \/ quote.author = phone

\* const isBotMessage = botUuids.has(source) || values(botUuids).includes(sourceUuid)
IsBotMessage(p) ==
    \/ p.source \in DOMAIN botUuids
    \/ (p.sourceUuid # "" /\ \E b \in DOMAIN botUuids : botUuids[b] = p.sourceUuid)

StreamIdOf(p) ==
    IF p.groupId # "" THEN <<"signal-stream", p.groupId>>
    ELSE <<"signal-stream", p.botPhone, p.source>>

\* const messageId = `signal-msg-${source}-${timestamp}`
RouterMessageId(p) == <<p.source, p.timestamp>>

\* Array.prototype.find: the element of seq at the least of the indices
\* hits (those that pass the test), as a one-element sequence, or <<>>.
Find(seq, hits) ==
    IF hits = {} THEN <<>>
    ELSE <<seq[CHOOSE i \in hits : \A j \in hits : i <= j]>>

\* Array.from(botNames.keys()).find(phone => isBotMentioned(phone))
MentionedBotPhone(mentions) ==
    Find(BotOrder,
         {i \in 1..Len(BotOrder) : isBotMentioned(BotOrder[i], mentions)})

\* The name a mention is replaced by.
MentionName(mention, profiles) ==
    LET byUuid ==
            Find(BotOrder,
                 {i \in 1..Len(BotOrder) :
                     mention.uuid # "" /\ botUuids[BotOrder[i]] = mention.uuid})
        profileId == IF mention.uuid # "" THEN mention.uuid ELSE mention.number
        profile ==
            Find(profiles, {i \in 1..Len(profiles) : profiles[i].id = profileId})
    IN  IF byUuid # <<>> THEN Chars[botNames[byUuid[1]]]
        ELSE IF mention.number # "" /\ mention.number \in DOMAIN botNames
             THEN Chars[botNames[mention.number]]
        ELSE IF profile # <<>> THEN Chars[profile[1].displayName]
        ELSE Chars["user"]

\* The mentions sorted by start, descending (a stable insertion sort).
RECURSIVE InsertByStart(_, _)
InsertByStart(sorted, m) ==
    IF sorted = <<>> THEN <<m>>
    ELSE IF Head(sorted).start < m.start THEN <<m>> \o sorted
         ELSE <<Head(sorted)>> \o InsertByStart(Tail(sorted), m)

RECURSIVE SortMentions(_, _)
SortMentions(mentions, sorted) ==
    IF mentions = <<>> THEN sorted
    ELSE SortMentions(Tail(mentions), InsertByStart(sorted, Head(mentions)))

\* The for loop that replaces each mention's placeholder by @name.
RECURSIVE ReplaceMentions(_, _, _)
ReplaceMentions(text, sortedMentions, profiles) ==
    IF sortedMentions = <<>> THEN text
    ELSE LET m == Head(sortedMentions)
             replaced ==
                 IF m.start >= 0 /\ m.start < Len(text)
                 THEN SubSeq(text, 1, m.start) \o <<"@">> \o
                      MentionName(m, profiles) \o
                      SubSeq(text, m.start + m.length + 1, Len(text))
                 ELSE text
         IN  ReplaceMentions(replaced, Tail(sortedMentions), profiles)

\* processedMessage.replace(/￼/g, '')
StripPlaceholders(text) == SelectSeq(text, LAMBDA c : c # FFFC)

\* processedMessage before the privacy rules.
DecodedMessage(p, profiles) ==
    Trim(StripPlaceholders(
        ReplaceMentions(p.message, SortMentions(p.mentions, <<>>), profiles)))

\* (counterFacet?.state)?.count || 0
CounterCount(counters, bot, streamId) ==
    IF <<bot, streamId>> \in DOMAIN counters
    THEN counters[<<bot, streamId>>] ELSE 0

\* The user-profile facet found for the sender, if any.
SenderProfile(p, profiles) ==
    Find(profiles,
         {i \in 1..Len(profiles) :
             \/ profiles[i].phoneNumber = p.source
             \/ profiles[i].uuid = p.sourceUuid})

\* displayName
DisplayName(p, profiles) ==
    LET profile == SenderProfile(p, profiles)
    IN  IF p.sourceName # "" THEN p.sourceName
        ELSE IF profile # <<>> /\ profile[1].displayName # ""
             THEN profile[1].displayName
        ELSE p.source

\* The message is a recognised command of a human that mentions a bot.
IsCommandMessage(p) ==
    /\ parseCommand(p.message).isCommand
    /\ MentionedBotPhone(p.mentions) # <<>>
    /\ ~IsBotMessage(p)
    /\ parseCommand(p.message).command \in RecognisedCommands

\* The signal-command facet's state.
CommandFacet(p, cfg) ==
    [command |-> parseCommand(p.message).command,
     args |-> parseCommand(p.message).args,
     botPhone |-> MentionedBotPhone(p.mentions)[1],
     source |-> p.source, groupId |-> p.groupId, timestamp |-> p.timestamp,
     currentConfig |->
         [randomReplyChance |-> RandomReplyChance(cfg),
          maxBotMentionsPerConversation |-> MaxBotMentions(cfg)]]

\* An opt-out mode that drops every group message of a human.
IsOptedOutUnmarked(p, cfg) ==
    /\ ~IsBotMessage(p)
    /\ p.groupId # ""
    /\ GroupPrivacyMode(cfg) # "opt-in"

\* The message is opted out: a human's group message that starts with '.'
\* in opt-out mode.
IsOptedOut(p, cfg) ==
    /\ ~IsBotMessage(p)
    /\ p.groupId # ""
    /\ GroupPrivacyMode(cfg) # "opt-in"
    /\ StartsWith(p.message, ".")

\* A history policy that does not look at the quote.
StoreInHistoryIgnoringQuote(p, cfg) ==
    IF IsBotMessage(p) THEN FALSE
    ELSE IF p.groupId = "" THEN TRUE
    ELSE IF GroupPrivacyMode(cfg) = "opt-in"
         THEN \/ StartsWith(p.message, ".")
              \/ isBotMentioned(p.botPhone, p.mentions)
         ELSE TRUE

\* storeInHistory
StoreInHistory(p, cfg) ==
    IF IsBotMessage(p) THEN FALSE
    ELSE IF p.groupId = "" THEN TRUE
    ELSE IF GroupPrivacyMode(cfg) = "opt-in"
         THEN \/ StartsWith(p.message, ".")
              \/ isBotMentioned(p.botPhone, p.mentions)
              \/ isBotQuoted(p.botPhone, p.quote)
         ELSE TRUE

\* processedMessage as it is stored.
ProcessedMessage(p, cfg, profiles) ==
    IF /\ ~IsBotMessage(p)
       /\ p.groupId # ""
       /\ GroupPrivacyMode(cfg) = "opt-in"
       /\ StartsWith(p.message, ".")
    THEN Trim(SubstringFrom(p.message, 1))
    ELSE DecodedMessage(p, profiles)

\* botResponseCount: the speech facets with an agentId in the stream.
BotResponseCount(speech, streamId) ==
    IF streamId \in DOMAIN speech THEN speech[streamId] ELSE 0

\* The response cap sets shouldRespond, the receiving bot's decision, to
\* false: the cap is configured and reached and the receiving bot is neither
\* mentioned nor quoted.
CapRefuses(p, cfg, speech) ==
    /\ cfg.maxBotMentionsPerConversation # Undefined
    /\ cfg.maxBotMentionsPerConversation # 0
    /\ BotResponseCount(speech, StreamIdOf(p))
          >= cfg.maxBotMentionsPerConversation
    /\ ~isBotMentioned(p.botPhone, p.mentions)
    /\ ~isBotQuoted(p.botPhone, p.quote)

\* shouldRespond, the receiving bot's decision for a human's group message
\* that is not opted out, after the random roll and the response cap.
ShouldRespondGroup(p, cfg, speech, roll) ==
    LET targeted == \/ isBotMentioned(p.botPhone, p.mentions)
                    \/ isBotQuoted(p.botPhone, p.quote)
        rolled == /\ ~targeted
                  /\ RandomReplyChance(cfg) > 0
                  /\ StoreInHistory(p, cfg)
                  /\ roll = 1
    IN  (targeted \/ rolled) /\ ~CapRefuses(p, cfg, speech)

\* A direct-message path that honours the '.' marker.
ShouldRespondDirectUnmarked(p, cfg, counters) ==
    IF IsBotMessage(p)
    THEN /\ p.sourceUuid # botUuids[p.botPhone]
         /\ isBotMentioned(p.botPhone, p.mentions)
         /\ CounterCount(counters, p.botPhone, StreamIdOf(p)) < MaxBotMentions(cfg)
    ELSE ~StartsWith(p.message, ".")

\* shouldRespond as the direct-message path reads it.
ShouldRespondDirect(p, cfg, counters) ==
    IF IsBotMessage(p)
    THEN /\ p.sourceUuid # botUuids[p.botPhone]
         /\ isBotMentioned(p.botPhone, p.mentions)
         /\ CounterCount(counters, p.botPhone, StreamIdOf(p)) < MaxBotMentions(cfg)
    ELSE TRUE

\* A loop-prevention check that turns down every replay, a human's too.
TargetGrantedFirstDeliveryOnly(p, target, cfg, counters) ==
    /\ isBotMentioned(target, p.mentions) \/ isBotQuoted(target, p.quote)
    /\ ~p.reprocessed
    /\ IsBotMessage(p) =>
          CounterCount(counters, target, StreamIdOf(p)) < MaxBotMentions(cfg)

\* A loop-prevention check that treats a replay like a first delivery.
TargetGrantedReplayToo(p, target, cfg, counters) ==
    /\ isBotMentioned(target, p.mentions) \/ isBotQuoted(target, p.quote)
    /\ IsBotMessage(p) =>
          CounterCount(counters, target, StreamIdOf(p)) < MaxBotMentions(cfg)

\* A loop-prevention check that lets a bot go one past the limit.
TargetGrantedPastLimit(p, target, cfg, counters) ==
    /\ isBotMentioned(target, p.mentions) \/ isBotQuoted(target, p.quote)
    /\ IsBotMessage(p) =>
          /\ ~p.reprocessed
          /\ CounterCount(counters, target, StreamIdOf(p)) <= MaxBotMentions(cfg)

\* targetShouldRespond after the bot-to-bot loop prevention.
TargetGranted(p, target, cfg, counters) ==
    /\ isBotMentioned(target, p.mentions) \/ isBotQuoted(target, p.quote)
    /\ IsBotMessage(p) =>
          /\ ~p.reprocessed
          /\ CounterCount(counters, target, StreamIdOf(p)) < MaxBotMentions(cfg)

\* A random reply that does not ask whether the message is stored.
TargetShouldRespondUnstored(p, target, cfg, counters, roll) ==
    \/ TargetGranted(p, target, cfg, counters)
    \/ /\ ~IsBotMessage(p)
       /\ RandomReplyChance(cfg) > 0
       /\ roll = 1

\* targetShouldRespond after the random roll for the bots not granted.
TargetShouldRespond(p, target, cfg, counters, roll) ==
    \/ TargetGranted(p, target, cfg, counters)
    \/ /\ ~IsBotMessage(p)
       /\ StoreInHistory(p, cfg)
       /\ RandomReplyChance(cfg) > 0
       /\ roll = 1

\* The outcomes of the Math.random() rolls of the group loop, one per bot
\* (1 where no roll is made).
RandomRolls(p, cfg) ==
    IF /\ p.groupId # ""
       /\ ~IsBotMessage(p)
       /\ StoreInHistory(p, cfg)
       /\ RandomReplyChance(cfg) > 0
    THEN [Bots -> 1..RandomReplyChance(cfg)]
    ELSE {[b \in Bots |-> 1]}

\* A group loop without the guard against an activation that exists.
ActivatedBotsAgain(p, cfg, counters, activations, rolls) ==
    {b \in DOMAIN botNames :
        /\ p.sourceUuid # botUuids[b]
        /\ TargetShouldRespond(p, b, cfg, counters, rolls[b])}

\* A group loop that looks at the receiving bot only.
ActivatedBotsReceiverOnly(p, cfg, counters, activations, rolls) ==
    {b \in {p.botPhone} :
        /\ p.sourceUuid # botUuids[b]
        /\ TargetShouldRespond(p, b, cfg, counters, rolls[b])
        /\ <<b, p.timestamp>> \notin DOMAIN activations}

\* The bots the group loop creates an activation for.
ActivatedBots(p, cfg, counters, activations, rolls) ==
    {b \in DOMAIN botNames :
        /\ p.sourceUuid # botUuids[b]
        /\ TargetShouldRespond(p, b, cfg, counters, rolls[b])
        /\ <<b, p.timestamp>> \notin DOMAIN activations}

ActivationReason(p, target) ==
    IF isBotMentioned(target, p.mentions) THEN "mention"
    ELSE IF isBotQuoted(target, p.quote) THEN "quote"
    ELSE "random"

ActivationFacet(p, target, reason) ==
    [targetAgent |-> botNames[target], streamId |-> StreamIdOf(p),
     triggeredBy |-> RouterMessageId(p), botPhone |-> target,
     reason |-> reason]

\* The counters after a human's group message: those of the stream removed.
CountersReset(counters, p) ==
    MapRemove(counters,
              {k \in DOMAIN counters :
                  /\ k[1] \in DOMAIN botNames
                  /\ k[2] = StreamIdOf(p)
                  /\ counters[k] > 0})

\* Counters that go up by two for each granted bot-to-bot mention.
CountersAfterByTwo(p, counters, activated) ==
    IF IsBotMessage(p)
    THEN [k \in DOMAIN counters \cup {<<b, StreamIdOf(p)>> : b \in activated} |->
             IF k[1] \in activated /\ k[2] = StreamIdOf(p)
             THEN CounterCount(counters, k[1], k[2]) + 2
             ELSE counters[k]]
    ELSE CountersReset(counters, p)

\* The counters after the deltas of a group message are applied.
CountersAfter(p, counters, activated) ==
    IF IsBotMessage(p)
    THEN [k \in DOMAIN counters \cup {<<b, StreamIdOf(p)>> : b \in activated} |->
             IF k[1] \in activated /\ k[2] = StreamIdOf(p)
             THEN CounterCount(counters, k[1], k[2]) + 1
             ELSE counters[k]]
    ELSE CountersReset(counters, p)

NoTransform == [done |-> FALSE, payload |-> <<>>, countersBefore |-> <<>>,
                activationsBefore |-> {}, speechBefore |-> <<>>,
                added |-> [message |-> FALSE, activations |-> {}],
                limit |-> Undefined]

RouterIdle ==
    /\ config = <<>>
    /\ messageFacets = <<>>
    /\ profileFacets = <<>>
    /\ streamFacets = {}
    /\ activationFacets = <<>>
    /\ commandFacets = <<>>
    /\ counterFacets = <<>>
    /\ speechFacets = <<>>
    /\ pendingCommands = <<>>
    /\ routerEvents = 0
    /\ lastTransform = NoTransform
    /\ maxLimitSeen = Undefined

RouterInit ==
    /\ config \in RouterConfigs
    /\ messageFacets = <<>>
    /\ profileFacets = <<>>
    /\ streamFacets = {}
    /\ activationFacets = <<>>
    /\ commandFacets = <<>>
    /\ counterFacets = <<>>
    /\ speechFacets = <<>>
    /\ pendingCommands = <<>>
    /\ routerEvents = 0
    /\ lastTransform = NoTransform
    /\ maxLimitSeen = MaxBotMentions(config)

\* The early return of a command message: only the signal-command facet.
TransformCommand(p) ==
    /\ commandFacets' = MapSet(commandFacets, p.timestamp, CommandFacet(p, config))
    /\ pendingCommands' = Append(pendingCommands, CommandFacet(p, config))
    /\ UNCHANGED <<messageFacets, profileFacets, streamFacets,
                   activationFacets, counterFacets>>

\* The message, profile and stream facets of a message that is stored.
TransformStore(p) ==
    IF RouterMessageId(p) \notin DOMAIN messageFacets /\ StoreInHistory(p, config)
    THEN /\ messageFacets' =
               MapSet(messageFacets, RouterMessageId(p),
                      [content |-> ProcessedMessage(p, config, profileFacets),
                       streamId |-> StreamIdOf(p),
                       speaker |-> DisplayName(p, profileFacets),
                       botPhone |-> p.botPhone])
         /\ profileFacets' =
               IF SenderProfile(p, profileFacets) = <<>> /\ p.source # p.botPhone
               THEN Append(profileFacets,
                           [id |-> IF p.sourceUuid # "" THEN p.sourceUuid
                                   ELSE p.source,
                            phoneNumber |-> p.source, uuid |-> p.sourceUuid,
                            displayName |-> DisplayName(p, profileFacets)])
               ELSE profileFacets
         /\ streamFacets' = streamFacets \cup {StreamIdOf(p)}
    ELSE UNCHANGED <<messageFacets, profileFacets, streamFacets>>

\* The activation of the receiving bot for a direct message.
TransformDirect(p) ==
    /\ activationFacets' =
          IF /\ ShouldRespondDirect(p, config, counterFacets)
             /\ <<p.botPhone, p.timestamp>> \notin DOMAIN activationFacets
          THEN MapSet(activationFacets, <<p.botPhone, p.timestamp>>,
                      ActivationFacet(p, p.botPhone, "dm"))
          ELSE activationFacets
    /\ UNCHANGED counterFacets

\* The loop over the roster for a group message, and the counter reset.
TransformGroup(p, rolls) ==
    LET activated == ActivatedBots(p, config, counterFacets,
                                   activationFacets, rolls)
    IN  /\ activationFacets' =
              [k \in DOMAIN activationFacets \cup
                     {<<b, p.timestamp>> : b \in activated} |->
                  IF k \in DOMAIN activationFacets THEN activationFacets[k]
                  ELSE ActivationFacet(p, k[1], ActivationReason(p, k[1]))]
        /\ counterFacets' = CountersAfter(p, counterFacets, activated)

\* The addFacet deltas transform returns for the payload: whether one adds
\* the message record, and the bots whose activation is added.
AddedFacets(p, rolls) ==
    IF IsCommandMessage(p) \/ IsOptedOut(p, config)
    THEN [message |-> FALSE, activations |-> {}]
    ELSE [message |->
              /\ RouterMessageId(p) \notin DOMAIN messageFacets
              /\ StoreInHistory(p, config),
          activations |->
              IF p.groupId = ""
              THEN IF /\ ShouldRespondDirect(p, config, counterFacets)
                      /\ <<p.botPhone, p.timestamp>>
                            \notin DOMAIN activationFacets
                   THEN {p.botPhone} ELSE {}
              ELSE ActivatedBots(p, config, counterFacets, activationFacets,
                                 rolls)]

\* SignalMessageReceptor.transform(event, state), its deltas applied.
Transform(p, rolls) ==
    /\ IF IsCommandMessage(p) THEN TransformCommand(p)
       ELSE IF IsOptedOut(p, config)
       THEN UNCHANGED <<messageFacets, profileFacets, streamFacets,
                        activationFacets, commandFacets, counterFacets,
                        pendingCommands>>
       ELSE /\ TransformStore(p)
            /\ IF p.groupId = "" THEN TransformDirect(p)
               ELSE TransformGroup(p, rolls)
            /\ UNCHANGED <<commandFacets, pendingCommands>>
    /\ lastTransform' = [done |-> TRUE, payload |-> p,
                         countersBefore |-> counterFacets,
                         activationsBefore |-> DOMAIN activationFacets,
                         speechBefore |-> speechFacets,
                         added |-> AddedFacets(p, rolls),
                         limit |-> MaxBotMentions(config)]

\* A bot connection's signal:message event for a message of the feed is
\* processed in a frame of its own; the frame's effectors have run.
RouterEvent ==
    /\ routerEvents < MaxRouterEvents
    /\ pendingCommands = <<>>
    /\ \E p \in RouterPayloads :
          \E rolls \in RandomRolls(p, config) : Transform(p, rolls)
    /\ routerEvents' = routerEvents + 1
    /\ UNCHANGED <<config, speechFacets, maxLimitSeen>>
    /\ UNCHANGED <<chunkVars, now, connVars, dedupVars, consVars,
                   mentionVars, sendVars, frameVars>>

\* The configuration updates handleCommand derives from a command facet.
ConfigUpdates(facet, cfg) ==
    LET value == ParseInt(facet.args)
    IN  IF facet.args = <<>> \/ value = NaN \/ value < 0 THEN cfg
        ELSE IF facet.command = <<"!", "r", "r">>
             THEN [cfg EXCEPT !.randomReplyChance = value]
        ELSE IF facet.command = <<"!", "b", "b">>
             THEN [cfg EXCEPT !.maxBotMentionsPerConversation = value]
        ELSE cfg

\* SignalCommandEffector.process: handleCommand for an added signal-command
\* facet, and SignalMessageReceptor.updateConfig through onConfigUpdate.
CommandEffectorProcess ==
    /\ pendingCommands # <<>>
    /\ config' = ConfigUpdates(Head(pendingCommands), config)
    /\ pendingCommands' = Tail(pendingCommands)
    /\ maxLimitSeen' = Max(maxLimitSeen, MaxBotMentions(config'))
    /\ UNCHANGED <<messageFacets, profileFacets, streamFacets,
                   activationFacets, commandFacets, counterFacets,
                   speechFacets, routerEvents, lastTransform>>
    /\ UNCHANGED <<chunkVars, now, connVars, dedupVars, consVars,
                   mentionVars, sendVars, frameVars>>

RouterNext ==
    \/ RouterEvent
    \/ CommandEffectorProcess

(***************************************************************************)
(* The receptor's response and history policy on a second feed: the        *)
(* privacy modes, direct messages, self-addressed bot messages and the     *)
(* random reply, under every combination of the policy's settings.         *)
(***************************************************************************)
TextDotMentionHi == <<".", FFFC, " ", "h", "i">>
TextDotHiPadded == <<".", " ", "h", "i", " ">>

\* A marked message that also mentions a bot.
HumanDottedMention ==
    Msg(UserPhone, UserUuid, "g1", TextDotMentionHi, <<MentionOf("b2", 1)>>,
        NoQuote, 12)
\* A marked message with white space around its text.
HumanDottedPadded ==
    Msg(UserPhone, UserUuid, "g1", TextDotHiPadded, <<>>, NoQuote, 13)
\* A direct message that starts with the marker.
HumanDottedDirect ==
    Msg(UserPhone, UserUuid, "", TextDotHi, <<>>, NoQuote, 14)
\* A direct message one bot sends to another.
BotDirect == Msg("b1", botUuids["b1"], "", TextHi, <<>>, NoQuote, 15)
\* A bot's group message that starts with the marker and mentions a bot.
BotDottedMention ==
    Msg("b1", botUuids["b1"], "g1", TextDotMentionHi, <<MentionOf("b2", 1)>>,
        NoQuote, 16)

\* A direct message that carries a command and a mention of its receiver.
HumanDirectHelp ==
    Msg(UserPhone, UserUuid, "", TextHelp, <<MentionOf("b2", 0)>>, NoQuote, 17)

\* A quote of a bot known by its phone number only.
QuoteByNumber(b) == [present |-> TRUE, authorUuid |-> "", author |-> b]

\* A message that mentions b1 and quotes b3, both by phone number.
HumanNumberTargets ==
    Msg(UserPhone, UserUuid, "g1", TextMentionHi, <<MentionByNumber("b1", 0)>>,
        QuoteByNumber("b3"), 18)

\* The events of the policy feed.
PolicyPayloads ==
    {RouterPayload(HumanHello, "b1", FALSE),
     RouterPayload(HumanMention, "b2", FALSE),
     RouterPayload(HumanMention, "b3", FALSE),
     RouterPayload(HumanDottedPadded, "b3", FALSE),
     RouterPayload(HumanDottedMention, "b2", FALSE),
     RouterPayload(HumanSetLimit, "b2", FALSE),
     RouterPayload(HumanQuote, "b1", FALSE),
     RouterPayload(HumanQuote, "b3", FALSE),
     RouterPayload(HumanDirect, "b2", FALSE),
     RouterPayload(HumanNumberTargets, "b2", FALSE),
     RouterPayload(BotMention, "b2", FALSE),
     RouterPayload(BotDottedMention, "b3", FALSE),
     RouterPayload(BotSelfMention, "b3", FALSE),
     RouterPayload(BotSelfMentionNoUuid, "b2", FALSE)}

\* The configurations of the policy feed.
PolicyConfigs ==
    [groupPrivacyMode : {"", "opt-out"},
     randomReplyChance : {Undefined, 1, 2},
     maxBotMentionsPerConversation : {Undefined, 1}]

\* The number of signal:message events of the policy feed explored.
MaxPolicyEvents == 2

PolicyInit ==
    /\ config \in PolicyConfigs
    /\ messageFacets = <<>>
    /\ profileFacets = <<>>
    /\ streamFacets = {}
    /\ activationFacets = <<>>
    /\ commandFacets = <<>>
    /\ counterFacets = <<>>
    /\ speechFacets = <<>>
    /\ pendingCommands = <<>>
    /\ routerEvents = 0
    /\ lastTransform = NoTransform
    /\ maxLimitSeen = MaxBotMentions(config)

\* A signal:message event of the policy feed, processed in a frame of its
\* own.
PolicyEvent ==
    /\ routerEvents < MaxPolicyEvents
    /\ pendingCommands = <<>>
    /\ \E p \in PolicyPayloads :
          \E rolls \in RandomRolls(p, config) : Transform(p, rolls)
    /\ routerEvents' = routerEvents + 1
    /\ UNCHANGED <<config, speechFacets, maxLimitSeen>>
    /\ UNCHANGED <<chunkVars, now, connVars, dedupVars, consVars,
                   mentionVars, sendVars, frameVars>>

PolicyNext ==
    \/ PolicyEvent
    \/ CommandEffectorProcess

(***************************************************************************)
(* The receptor fed with replays: the payload the consistency receptor     *)
(* stored for a message, processed again with __reprocessed set.           *)
(***************************************************************************)
\* The events of the replay feed: replays of messages that mention or quote
\* a bot, as stored from a targeted and from an untargeted bot's
\* connection, and some first deliveries.
ReplayPayloads ==
    {RouterPayload(HumanMention, "b3", TRUE),
     RouterPayload(HumanMention, "b2", TRUE),
     RouterPayload(HumanQuote, "b1", TRUE),
     RouterPayload(HumanNumberTargets, "b2", TRUE),
     RouterPayload(HumanDottedMention, "b3", TRUE),
     RouterPayload(HumanSetLimit, "b1", TRUE),
     RouterPayload(HumanMention, "b3", FALSE),
     RouterPayload(HumanHello, "b1", FALSE),
     RouterPayload(BotMention, "b2", FALSE)}

\* The number of signal:message events of the replay feed explored.
MaxReplayEvents == 2

\* A signal:message event of the replay feed, processed in a frame of its
\* own.
ReplayEvent ==
    /\ routerEvents < MaxReplayEvents
    /\ pendingCommands = <<>>
    /\ \E p \in ReplayPayloads :
          \E rolls \in RandomRolls(p, config) : Transform(p, rolls)
    /\ routerEvents' = routerEvents + 1
    /\ UNCHANGED <<config, speechFacets, maxLimitSeen>>
    /\ UNCHANGED <<chunkVars, now, connVars, dedupVars, consVars,
                   mentionVars, sendVars, frameVars>>

ReplayNext ==
    \/ ReplayEvent
    \/ CommandEffectorProcess

(***************************************************************************)
(* SignalMessageReceptor, the per-bot revision (signal-receptor.ts): every *)
(* bot's connection reports the message and the receptor decides for the   *)
(* bot of the payload only.  It has no commands.                           *)
(***************************************************************************)
\* this.config.maxBotMentionsPerConversation || 10
PerBotMaxBotMentions(cfg) ==
    IF cfg.maxBotMentionsPerConversation \in {Undefined, 0}
    THEN DefaultMaxBotMentions
    ELSE cfg.maxBotMentionsPerConversation

\* The name the per-bot revision writes for a mention: the bot's name by
\* UUID, then by number, then mention.uuid, then 'unknown'.
PerBotMentionName(mention) ==
    LET byUuid ==
            Find(BotOrder,
                 {i \in 1..Len(BotOrder) :
                     botUuids[BotOrder[i]] = mention.uuid})
    IN  IF byUuid # <<>> THEN Chars[botNames[byUuid[1]]]
        ELSE IF mention.number # "" /\ mention.number \in DOMAIN botNames
             THEN Chars[botNames[mention.number]]
        ELSE IF mention.uuid # "" THEN <<mention.uuid>>
        ELSE <<"u", "n", "k", "n", "o", "w", "n">>

\* processedMessage.replace('￼', `@${name}`): the first placeholder only.
PerBotReplaceFirst(text, name) ==
    LET at == {i \in 1..Len(text) : text[i] = FFFC}
    IN  IF at = {} THEN text
        ELSE LET i == CHOOSE k \in at : \A j \in at : k <= j
             IN  SubSeq(text, 1, i - 1) \o <<"@">> \o name \o
                 SubSeq(text, i + 1, Len(text))

RECURSIVE PerBotReplaceMentions(_, _)
PerBotReplaceMentions(text, sortedMentions) ==
    IF sortedMentions = <<>> THEN text
    ELSE PerBotReplaceMentions(
             PerBotReplaceFirst(text, PerBotMentionName(Head(sortedMentions))),
             Tail(sortedMentions))

\* processedMessage as the per-bot revision stores it.
PerBotProcessedMessage(p, cfg) ==
    IF /\ ~IsBotMessage(p)
       /\ p.groupId # ""
       /\ GroupPrivacyMode(cfg) = "opt-in"
       /\ StartsWith(p.message, ".")
    THEN Trim(SubstringFrom(p.message, 1))
    ELSE Trim(StripPlaceholders(
             PerBotReplaceMentions(p.message, SortMentions(p.mentions, <<>>))))

\* The outcomes of Math.floor(Math.random() * 100) + 1 explored.
PerBotRolls == {1, 50, 51, 100}

\* roll <= (100 / randomReplyChance)
PerBotRollSucceeds(roll, chance) == roll * chance <= 100

\* shouldRespond of the per-bot revision.
PerBotShouldRespond(p, cfg, counters, speech, roll) ==
    LET botMentioned == isBotMentioned(p.botPhone, p.mentions)
        quotedBot == isBotQuoted(p.botPhone, p.quote)
    IN  IF IsBotMessage(p)
        THEN /\ p.sourceUuid # botUuids[p.botPhone]
             /\ botMentioned
             /\ CounterCount(counters, p.botPhone, StreamIdOf(p))
                   < PerBotMaxBotMentions(cfg)
        ELSE IF p.groupId = "" THEN TRUE
        ELSE /\ \/ botMentioned
                \/ quotedBot
                \/ /\ RandomReplyChance(cfg) > 0
                   /\ StoreInHistory(p, cfg)
                   /\ PerBotRollSucceeds(roll, RandomReplyChance(cfg))
             /\ ~CapRefuses(p, cfg, speech)

\* if (shouldRespond || !isGroupChat): the activation is added.
PerBotActivates(p, cfg, counters, speech, roll) ==
    \/ PerBotShouldRespond(p, cfg, counters, speech, roll)
    \/ p.groupId = ""

\* reason: botMentioned ? 'mention' : quotedBot ? 'quote' : 'dm'
PerBotReason(p) ==
    IF isBotMentioned(p.botPhone, p.mentions) THEN "mention"
    ELSE IF isBotQuoted(p.botPhone, p.quote) THEN "quote"
    ELSE "dm"

\* The counter of the payload's bot after a group message: one up for a
\* granted bot-to-bot mention, back to 0 for a human's message.
PerBotCountersAfter(p, counters, responds) ==
    LET k == <<p.botPhone, StreamIdOf(p)>>
    IN  IF p.groupId = "" THEN counters
        ELSE IF IsBotMessage(p)
        THEN IF responds
             THEN MapSet(counters, k,
                         CounterCount(counters, k[1], k[2]) + 1)
             ELSE counters
        ELSE IF k \in DOMAIN counters /\ counters[k] > 0
             THEN MapSet(counters, k, 0)
             ELSE counters

\* transform(event, state) of the per-bot revision, its deltas applied.
PerBotTransform(p, roll) ==
    LET responds == PerBotShouldRespond(p, config, counterFacets,
                                        speechFacets, roll)
        activates == PerBotActivates(p, config, counterFacets,
                                     speechFacets, roll)
        stores == /\ RouterMessageId(p) \notin DOMAIN messageFacets
                  /\ StoreInHistory(p, config)
    IN  /\ IF IsOptedOut(p, config)
           THEN UNCHANGED <<messageFacets, profileFacets, streamFacets,
                            activationFacets, counterFacets>>
           ELSE /\ IF stores
                   THEN /\ messageFacets' =
                              MapSet(messageFacets, RouterMessageId(p),
                                     [content |->
                                          PerBotProcessedMessage(p, config),
                                      streamId |-> StreamIdOf(p),
                                      speaker |-> DisplayName(p, profileFacets),
                                      botPhone |-> p.botPhone])
                        /\ profileFacets' =
                              IF /\ SenderProfile(p, profileFacets) = <<>>
                                 /\ p.source # p.botPhone
                              THEN Append(profileFacets,
                                          [id |-> IF p.sourceUuid # ""
                                                  THEN p.sourceUuid
                                                  ELSE p.source,
                                           phoneNumber |-> p.source,
                                           uuid |-> p.sourceUuid,
                                           displayName |->
                                               DisplayName(p, profileFacets)])
                              ELSE profileFacets
                        /\ streamFacets' = streamFacets \cup {StreamIdOf(p)}
                   ELSE UNCHANGED <<messageFacets, profileFacets,
                                    streamFacets>>
                /\ counterFacets' =
                      PerBotCountersAfter(p, counterFacets, responds)
                /\ activationFacets' =
                      IF activates
                      THEN MapSet(activationFacets,
                                  <<p.botPhone, p.timestamp>>,
                                  ActivationFacet(p, p.botPhone,
                                                  PerBotReason(p)))
                      ELSE activationFacets
        /\ lastTransform' =
              [done |-> TRUE, payload |-> p,
               countersBefore |-> counterFacets,
               activationsBefore |-> DOMAIN activationFacets,
               speechBefore |-> speechFacets,
               added |-> IF IsOptedOut(p, config)
                         THEN [message |-> FALSE, activations |-> {}]
                         ELSE [message |-> stores,
                               activations |-> IF activates THEN {p.botPhone}
                                               ELSE {}],
               limit |-> PerBotMaxBotMentions(config)]
        /\ UNCHANGED <<commandFacets, pendingCommands>>

\* The events of the per-bot feed: each connection's report is an event.
PerBotPayloads ==
    {RouterPayload(HumanHello, "b1", FALSE),
     RouterPayload(HumanMention, "b2", FALSE),
     RouterPayload(HumanMention, "b3", FALSE),
     RouterPayload(HumanQuote, "b3", FALSE),
     RouterPayload(HumanDottedMention, "b2", FALSE),
     RouterPayload(HumanDottedPadded, "b1", FALSE),
     RouterPayload(HumanDirect, "b2", FALSE),
     RouterPayload(HumanDirectHelp, "b2", FALSE),
     RouterPayload(BotDirect, "b2", FALSE),
     RouterPayload(BotMention, "b2", FALSE),
     RouterPayload(BotMention, "b3", FALSE),
     RouterPayload(BotSelfMention, "b2", FALSE)}

\* The number of signal:message events of the per-bot feed explored.
MaxPerBotEvents == 2

\* A signal:message event processed by the per-bot revision.
PerBotEvent ==
    /\ routerEvents < MaxPerBotEvents
    /\ \E p \in PerBotPayloads :
          \E roll \in PerBotRolls : PerBotTransform(p, roll)
    /\ routerEvents' = routerEvents + 1
    /\ UNCHANGED <<config, speechFacets, maxLimitSeen>>
    /\ UNCHANGED <<chunkVars, now, connVars, dedupVars, consVars,
                   mentionVars, sendVars, frameVars>>

PerBotNext == PerBotEvent

(***************************************************************************)
(* The receptor in a space whose agents speak: the bots' own speech facets *)
(* are what the response cap counts.                                       *)
(***************************************************************************)
\* The events of the feed.
CapPayloads ==
    {RouterPayload(HumanHello, "b1", FALSE),
     RouterPayload(HumanMention, "b3", FALSE),
     RouterPayload(HumanDotted, "b1", FALSE),
     RouterPayload(HumanSetLimit, "b2", FALSE),
     RouterPayload(HumanDirect, "b2", FALSE),
     RouterPayload(HumanDottedDirect, "b1", FALSE),
     RouterPayload(HumanDirectHelp, "b2", FALSE),
     RouterPayload(BotDirect, "b2", FALSE),
     RouterPayload(BotMention, "b2", FALSE)}

\* The number of signal:message events of this feed explored.
MaxCapEvents == 2

\* The streams the bots speak in: the group and a direct conversation.
SpeechStreams ==
    {StreamIdOf(RouterPayload(HumanHello, "b1", FALSE)),
     StreamIdOf(RouterPayload(HumanDottedDirect, "b1", FALSE))}

\* The number of speech facets of bots explored.
MaxAgentSpeech == 1

RECURSIVE SumOver(_, _)
SumOver(f, keys) ==
    IF keys = {} THEN 0
    ELSE LET k == CHOOSE x \in keys : TRUE
         IN  f[k] + SumOver(f, keys \ {k})

\* An agent of the host adds a speech facet of its own to a stream.
AgentSpeaks ==
    /\ SumOver(speechFacets, DOMAIN speechFacets) < MaxAgentSpeech
    /\ \E streamId \in SpeechStreams :
          speechFacets' =
              MapSet(speechFacets, streamId,
                     BotResponseCount(speechFacets, streamId) + 1)
    /\ UNCHANGED <<config, messageFacets, profileFacets, streamFacets,
                   activationFacets, commandFacets, counterFacets,
                   pendingCommands, routerEvents, lastTransform,
                   maxLimitSeen>>
    /\ UNCHANGED <<chunkVars, now, connVars, dedupVars, consVars,
                   mentionVars, sendVars, frameVars>>

\* A signal:message event of the feed, processed in a frame of its own.
CapEvent ==
    /\ routerEvents < MaxCapEvents
    /\ pendingCommands = <<>>
    /\ \E p \in CapPayloads :
          \E rolls \in RandomRolls(p, config) : Transform(p, rolls)
    /\ routerEvents' = routerEvents + 1
    /\ UNCHANGED <<config, speechFacets, maxLimitSeen>>
    /\ UNCHANGED <<chunkVars, now, connVars, dedupVars, consVars,
                   mentionVars, sendVars, frameVars>>

CapNext ==
    \/ CapEvent
    \/ AgentSpeaks
    \/ CommandEffectorProcess

(***************************************************************************)
(* SignalSpeechEffector.detectMentions: the outbound encoding of @name     *)
(* into U+FFFC placeholders with mention records; and the decoding of the  *)
(* result by the inbound receptor's mention replacement.                   *)
(***************************************************************************)
\* ' \n\t,.:;!?': the characters that may follow a mention.
BoundaryChars == {" ", "\n", "\t", ",", ".", ":", ";", "!", "?"}

\* nameToPhone.set(name, phone) on a Map kept as a sequence of [name, phone]
\* in insertion order.
NameTableSet(table, name, phone) ==
    IF \E i \in 1..Len(table) : table[i].name = name
    THEN [i \in 1..Len(table) |->
             IF table[i].name = name THEN [name |-> name, phone |-> phone]
             ELSE table[i]]
    ELSE Append(table, [name |-> name, phone |-> phone])

\* The bot names, in the order of config.botNames.
RECURSIVE BotNameTable(_, _)
BotNameTable(order, table) ==
    IF order = <<>> THEN table
    ELSE BotNameTable(Tail(order),
                      NameTableSet(table, Chars[botNames[Head(order)]],
                                   Head(order)))

\* ... and the display names of the user-profile facets.
RECURSIVE ProfileNameTable(_, _)
ProfileNameTable(profiles, table) ==
    IF profiles = <<>> THEN table
    ELSE ProfileNameTable(
             Tail(profiles),
             IF Head(profiles).displayName # "" /\ Head(profiles).phoneNumber # ""
             THEN NameTableSet(table, Chars[Head(profiles).displayName],
                               Head(profiles).phoneNumber)
             ELSE table)

\* nameToPhone
NameToPhone(profiles) == ProfileNameTable(profiles, BotNameTable(BotOrder, <<>>))

\* sort((a, b) => b.length - a.length): longest name first, stable.
RECURSIVE InsertByLength(_, _)
InsertByLength(sorted, e) ==
    IF sorted = <<>> THEN <<e>>
    ELSE IF Len(Head(sorted).name) < Len(e.name) THEN <<e>> \o sorted
         ELSE <<Head(sorted)>> \o InsertByLength(Tail(sorted), e)

RECURSIVE SortByLength(_, _)
SortByLength(table, sorted) ==
    IF table = <<>> THEN sorted
    ELSE SortByLength(Tail(table), InsertByLength(sorted, Head(table)))

\* text.indexOf(pattern, from): the 0-based offset of the first occurrence
\* at or after from, or -1.
IndexOf(text, pattern, from) ==
    LET hits == {i \in from..(Len(text) - Len(pattern)) :
                    SubSeq(text, i + 1, i + Len(pattern)) = pattern}
    IN  IF hits = {} THEN -1
        ELSE CHOOSE i \in hits : \A j \in hits : i <= j

\* utf16Start: the offset of the match in modifiedText as it is now.
RecordedStart(text, pos) == pos

\* The while loop for one name: every @name followed by a boundary
\* character (or the end) becomes a placeholder and a mention record.
RECURSIVE ScanName(_, _, _, _, _)
ScanName(text, mentions, name, phone, searchPos) ==
    LET pos == IndexOf(text, <<"@">> \o name, searchPos)
        matchLength == Len(name) + 1
        charAfter == IF pos + matchLength < Len(text)
                     THEN text[pos + matchLength + 1] ELSE " "
    IN  IF pos = -1 THEN [text |-> text, mentions |-> mentions]
        ELSE IF charAfter \in BoundaryChars
             THEN ScanName(SubSeq(text, 1, pos) \o <<FFFC>> \o
                               SubSeq(text, pos + matchLength + 1, Len(text)),
                           Append(mentions,
                                  [start |-> RecordedStart(text, pos),
                                   length |-> 1, author |-> phone]),
                           name, phone, pos + 1)
             ELSE ScanName(text, mentions, name, phone, pos + 1)

\* The for loop over the sorted names.
RECURSIVE ScanNames(_, _, _)
ScanNames(text, mentions, sortedNames) ==
    IF sortedNames = <<>> THEN [text |-> text, mentions |-> mentions]
    ELSE LET r == IF Head(sortedNames).phone = ""
                  THEN [text |-> text, mentions |-> mentions]
                  ELSE ScanName(text, mentions, Head(sortedNames).name,
                                Head(sortedNames).phone, 0)
         IN  ScanNames(r.text, r.mentions, Tail(sortedNames))

\* SignalSpeechEffector.detectMentions(text, state)
detectMentions(text, profiles) ==
    ScanNames(text, <<>>, SortByLength(NameToPhone(profiles), <<>>))

\* The pieces the texts handed to detectMentions are made of.
MentionPieces ==
    {<<"@", "A", "n", "n">>, <<"@", "B", "o">>,
     <<"@", "a", "l", "i", "c", "e">>, <<"h", "i">>, <<" ">>, <<".">>,
     <<"n">>, <<"@">>}

\* The largest number of pieces in a text.
MaxPieces == 3

RECURSIVE JoinPieces(_)
JoinPieces(pieces) ==
    IF pieces = <<>> THEN <<>> ELSE Head(pieces) \o JoinPieces(Tail(pieces))

\* The user's profile facet as transform creates it.
UserProfile ==
    [id |-> UserUuid, phoneNumber |-> UserPhone, uuid |-> UserUuid,
     displayName |-> UserPhone]

NoEncoding == [text |-> <<>>, mentions |-> <<>>]

MentionIdle ==
    /\ mentionInput = <<>>
    /\ mentionProfiles = <<>>
    /\ encoded = NoEncoding
    /\ decoded = <<>>
    /\ mentionStage = "input"

MentionInit ==
    /\ mentionInput \in {JoinPieces(ps) : ps \in SeqsUpTo(MentionPieces, MaxPieces)}
    /\ mentionProfiles \in {<<>>, <<UserProfile>>}
    /\ encoded = NoEncoding
    /\ decoded = <<>>
    /\ mentionStage = "input"

\* sendSpeech hands the text of a group reply to detectMentions.
DetectMentions ==
    /\ mentionStage = "input"
    /\ encoded' = detectMentions(mentionInput, mentionProfiles)
    /\ mentionStage' = "encoded"
    /\ UNCHANGED <<mentionInput, mentionProfiles, decoded>>
    /\ UNCHANGED <<chunkVars, now, connVars, dedupVars, consVars, routerVars,
                   sendVars, frameVars>>

\* An outbound mention record as it arrives inbound: the author is the
\* mentioned number.
InboundMention(mention) ==
    [uuid |-> "", number |-> mention.author, start |-> mention.start,
     length |-> mention.length]

\* The receiving side decodes the text and the mention records
\* (transform's processedMessage).
DecodeMentions ==
    /\ mentionStage = "encoded"
    /\ decoded' =
          DecodedMessage([message |-> encoded.text,
                          mentions |-> [i \in 1..Len(encoded.mentions) |->
                                           InboundMention(encoded.mentions[i])]],
                         mentionProfiles)
    /\ mentionStage' = "decoded"
    /\ UNCHANGED <<mentionInput, mentionProfiles, encoded>>
    /\ UNCHANGED <<chunkVars, now, connVars, dedupVars, consVars, routerVars,
                   sendVars, frameVars>>

MentionNext == DetectMentions \/ DecodeMentions

(***************************************************************************)
(* The arrival of one group message at the bots' connections: what the     *)
(* deduplicator answers for it and what the consistency receptor records.  *)
(***************************************************************************)
\* The messages explored: those of the feed with at most one mention.
ArrivalMessages == {msg \in FeedMessages : Len(msg.mentions) <= 1}

\* The deduplicator's key of the message that arrives.
ArrivalMessageId == "m1"

ArrivalInit ==
    /\ feedMessage \in ArrivalMessages
    /\ messageTrackers = <<>>
    /\ consistencyTimers = {}
    /\ trackerCreated = <<>>
    /\ lastCheck = NoCheck

\* The connection asks the deduplicator about its arrival of the message.
ConsultDeduplicator(botPhone) ==
    shouldEmit(ArrivalMessageId, botPhone, TRUE, FALSE)

\* A connection that emits its arrival only when the deduplicator allows.
EmitsMessageEventIfFirst(allowed) == allowed

\* SignalAfferent.handleMessage emits signal:message for every data message
\* it parses; no answer of the deduplicator is read on the way.
EmitsMessageEvent(allowed) == TRUE

\* The message arrives at a bot's connection.
AfferentArrival ==
    /\ \E b \in Bots :
          /\ ConsultDeduplicator(b)
          /\ IF EmitsMessageEvent(lastCall'.result)
             THEN ConsistencyTransform(Payload(feedMessage, b))
             ELSE UNCHANGED <<messageTrackers, consistencyTimers,
                              trackerCreated>>
    /\ UNCHANGED <<feedMessage, lastCheck>>
    /\ UNCHANGED <<chunkVars, now, connVars, routerVars, mentionVars,
                   sendVars, frameVars>>

ArrivalNext ==
    \/ AfferentArrival
    \/ CheckConsistency
    \/ ConsTick

(***************************************************************************)
(* SignalSpeechEffector.process and sendSpeech: a batch of facet changes   *)
(* is handled in one call; every request to the Signal API succeeds or     *)
(* fails as the environment decides.                                       *)
(***************************************************************************)
\* config.maxMessageLength of the effector explored.
SendMaxLength == 6

\* state.facets.get(streamId): the stream-definition facets of the space.
SendStreams ==
    ("sg" :> [conversationKey |-> "g1", isGroupChat |-> TRUE,
              botPhone |-> "b1"]) @@
    ("sd" :> [conversationKey |-> "alice", isGroupChat |-> FALSE,
              botPhone |-> "b2"]) @@
    ("s0" :> [conversationKey |-> "alice", isGroupChat |-> FALSE,
              botPhone |-> ""])

SpeechFacet(id, text, streamId, agentId) ==
    [id |-> id, content |-> text, streamId |-> streamId, agentId |-> agentId]

\* The speech facets the batches are drawn from.  An agentId is a sequence
\* of its parts, <<"agent-", name>> or <<name>>, <<>> when absent.
SendFacets ==
    {SpeechFacet("f1", <<"B", "o", ":", " ", "h", "i">>, "sg",
                 <<"agent-", "Bo">>),
     SpeechFacet("f2", <<>>, "sg", <<"agent-", "Bo">>),
     SpeechFacet("f3", <<"B", "o", ":", " ">>, "sg", <<"agent-", "Bo">>),
     SpeechFacet("f4", <<"B", "o", ":", " ", "@", "A", "n", "n", " ", "a",
                         "b", " ", "c", "d", " ", "e", "f", " ", "g", "h">>,
                 "sg", <<"agent-", "Bo">>),
     SpeechFacet("f5", <<"@", "A", "n", "n", " ", "h", "i">>, "sd", <<>>),
     SpeechFacet("f7", <<"@", "C", "y", " ", "h", "i">>, "sg", <<"Zed">>),
     SpeechFacet("f8", <<" ", ":", "a">>, "sx", <<>>),
     SpeechFacet("f9", <<"h", "i">>, "s0", <<>>)}

\* The number of changes in one batch and the number of process calls
\* explored.
MaxBatch == 2
MaxProcessCalls == 1

\* content.replace(/^[^:]+:\s*/, ''): the text up to the first colon, the
\* colon and the white space after it are removed when at least one
\* character stands before that colon.
StripSpeakerPrefix(text) ==
    LET colons == {i \in 1..Len(text) : text[i] = ":"}
    IN  IF colons = {} THEN text
        ELSE LET c == CHOOSE i \in colons : \A j \in colons : i <= j
                 rest == SubSeq(text, c + 1, Len(text))
                 keep == {i \in 1..Len(rest) : rest[i] \notin Whitespace}
             IN  IF c = 1 THEN text
                 ELSE IF keep = {} THEN <<>>
                 ELSE SubSeq(rest,
                             CHOOSE i \in keep : \A j \in keep : i <= j,
                             Len(rest))

\* this.nameToPhone.get(botName), "" when the name is no bot's.
PhoneOfAgent(agentId) ==
    LET name == IF agentId # <<>> /\ Head(agentId) = "agent-"
                THEN Tail(agentId) ELSE agentId
        hits == {b \in Bots : name = <<botNames[b]>>}
    IN  IF hits = {} THEN "" ELSE CHOOSE b \in hits : TRUE

\* The mention list a request for chunk i carries, if every chunk had it.
MentionsOnEveryChunk(i, mentions) == mentions

\* if (i === 0 && mentions.length > 0) payload.mentions = mentions
MentionsOnChunk(i, mentions) == IF i = 1 THEN mentions ELSE <<>>

\* const chunks = this.splitMessage(processedContent)
ChunksOf(text, maxLen) == splitMessage(text, maxLen)

NotSending ==
    [active |-> FALSE, facet |-> "", number |-> "",
     recipient |-> [id |-> "", external |-> FALSE],
     pieces |-> <<>>, mentions |-> <<>>, i |-> 0]

\* sendSpeech(facet, state) up to its send loop: the loop it enters (not
\* active when the call returns before it) and the cache after
\* convertGroupId.  found: the group list of the API names the group (else
\* the request for the list failed or the group is not in it).
PrepareSend(facet, cache, found) ==
    LET nothing == [sending |-> NotSending, cache |-> cache]
        text == Trim(StripSpeakerPrefix(facet.content))
    IN  IF facet.content = <<>> THEN nothing
        ELSE IF facet.streamId = "" THEN nothing
        ELSE IF facet.streamId \notin DOMAIN SendStreams THEN nothing
        ELSE
          LET stream == SendStreams[facet.streamId]
              fromAgent == IF stream.isGroupChat /\ facet.agentId # <<>>
                           THEN PhoneOfAgent(facet.agentId) ELSE ""
              botPhone == IF fromAgent # "" THEN fromAgent
                          ELSE stream.botPhone
          IN  IF botPhone = "" THEN nothing
              ELSE
                LET cached == stream.conversationKey \in cache
                    external == stream.isGroupChat /\ (cached \/ found)
                    result == IF stream.isGroupChat
                              THEN detectMentions(text, <<>>)
                              ELSE [text |-> text, mentions |-> <<>>]
                    pieces == ChunksOf(result.text, maxMessageLength)
                IN  [sending |->
                        [active |-> pieces # <<>>, facet |-> facet.id,
                         number |-> botPhone,
                         recipient |-> [id |-> stream.conversationKey,
                                        external |-> external],
                         pieces |-> pieces, mentions |-> result.mentions,
                         i |-> 1],
                     cache |-> IF stream.isGroupChat /\ ~cached /\ found
                               THEN cache \cup {stream.conversationKey}
                               ELSE cache]

\* A send loop that goes on to the next chunk after a failed request.
LoopGoesOnAfter(ok) == TRUE

\* The send loop goes on after a request: `throw error` leaves it.
LoopGoesOn(ok) == ok

\* A process loop that ends at the first facet whose send threw.
BatchGoesOnIfSent(ok) == ok

\* for (const change of changes): the catch of process pushes the event
\* and the loop takes the next change.
BatchGoesOn(ok) == TRUE

NoProcess == [done |-> FALSE, returned |-> FALSE, changes |-> <<>>]

SendIdle ==
    /\ groupIdCache = {}
    /\ posted = <<>>
    /\ sendEvents = <<>>
    /\ changesLeft = <<>>
    /\ sending = NotSending
    /\ lastProcess = NoProcess
    /\ processCalls = 0

\* process(changes, state) is called with a batch of added speech facets,
\* each facet added once.
ProcessCall ==
    /\ lastProcess.done => lastProcess.returned
    /\ processCalls < MaxProcessCalls
    /\ \E n \in 1..MaxBatch :
         \E changes \in [1..n -> SendFacets] :
           /\ \A i, j \in 1..n : changes[i] = changes[j] => i = j
           /\ changesLeft' = changes
           /\ lastProcess' = [done |-> TRUE, returned |-> FALSE,
                              changes |-> changes]
    /\ posted' = <<>>
    /\ sendEvents' = <<>>
    /\ sending' = NotSending
    /\ processCalls' = processCalls + 1
    /\ UNCHANGED groupIdCache
    /\ UNCHANGED <<chunkVars, now, connVars, dedupVars, consVars, routerVars,
                   mentionVars, frameVars>>

\* await this.sendSpeech(change.facet, state), up to the first request of
\* its send loop.
BeginSendSpeech ==
    /\ changesLeft # <<>>
    /\ ~sending.active
    /\ \E found \in BOOLEAN :
         LET r == PrepareSend(Head(changesLeft), groupIdCache, found)
         IN  /\ sending' = r.sending
             /\ groupIdCache' = r.cache
             /\ changesLeft' = IF r.sending.active THEN changesLeft
                             ELSE Tail(changesLeft)
    /\ UNCHANGED <<posted, sendEvents, lastProcess, processCalls>>
    /\ UNCHANGED <<chunkVars, now, connVars, dedupVars, consVars, routerVars,
                   mentionVars, frameVars>>

\* await axios.post(url, payload) for the next chunk: it succeeds or fails.
PostChunk ==
    /\ sending.active
    /\ \E ok \in BOOLEAN :
         LET last == sending.i = Len(sending.pieces)
             goesOn == LoopGoesOn(ok) /\ ~last
         IN  /\ posted' =
                   Append(posted,
                          [facet |-> sending.facet, index |-> sending.i,
                           number |-> sending.number,
                           recipient |-> sending.recipient,
                           message |-> sending.pieces[sending.i],
                           mentions |-> MentionsOnChunk(sending.i,
                                                        sending.mentions),
                           ok |-> ok])
             /\ sending' = IF goesOn
                           THEN [sending EXCEPT !.i = sending.i + 1]
                           ELSE NotSending
             /\ sendEvents' =
                   IF ok \/ goesOn THEN sendEvents
                   ELSE Append(sendEvents,
                               [topic |-> "signal:send-error",
                                facetId |-> sending.facet])
             /\ changesLeft' = IF goesOn THEN changesLeft
                             ELSE IF BatchGoesOn(ok) THEN Tail(changesLeft)
                             ELSE <<>>
    /\ UNCHANGED <<groupIdCache, lastProcess, processCalls>>
    /\ UNCHANGED <<chunkVars, now, connVars, dedupVars, consVars, routerVars,
                   mentionVars, frameVars>>

\* return { events }
ProcessReturns ==
    /\ lastProcess.done
    /\ ~lastProcess.returned
    /\ changesLeft = <<>>
    /\ ~sending.active
    /\ lastProcess' = [lastProcess EXCEPT !.returned = TRUE]
    /\ UNCHANGED <<groupIdCache, posted, sendEvents, changesLeft, sending,
                   processCalls>>
    /\ UNCHANGED <<chunkVars, now, connVars, dedupVars, consVars, routerVars,
                   mentionVars, frameVars>>

SendNext ==
    \/ ProcessCall
    \/ BeginSendSpeech
    \/ PostChunk
    \/ ProcessReturns

(***************************************************************************)
(* SignalAfferent.handleMessage: the frames of the open socket.  A frame   *)
(* is the text received, described by what JSON.parse makes of it and, for *)
(* an object, by the fields of its envelope the handler reads.             *)
(***************************************************************************)
\* dataMessage.message of a frame: absent (undefined), '' or a text.
FrameMessages ==
    {[present |-> FALSE, text |-> <<>>],
     [present |-> TRUE, text |-> <<>>],
     [present |-> TRUE, text |-> <<"h", "i">>]}

\* A frame whose text parses to an object; a missing envelope reads as {}.
ObjectFrames ==
    [json : {"object"},
     message : FrameMessages,
     attachments : {"absent", "empty", "some"},
     when : {Undefined, 0, 5},
     typing : {"absent", "STARTED"}]

\* A frame whose text does not parse ("invalid"), parses to null, or
\* parses to a number, a string or a boolean ("scalar").
OtherFrame(json) ==
    [json |-> json, message |-> [present |-> FALSE, text |-> <<>>],
     attachments |-> "absent",
     when |-> Undefined, typing |-> "absent"]

Frames == ObjectFrames \cup {OtherFrame(j) : j \in {"invalid", "null", "scalar"}}

\* The number of frames explored.
MaxFrames == 2

\* The topic handleMessage emits for a frame that parsed to a value with
\* properties: the branch on dataMessage, receiptMessage.when and
\* typingMessage, the last being `envelope.typingMessage || {}`, an object
\* in every case.
TopicFor(frame) ==
    IF frame.message.present \/ frame.attachments # "absent"
    THEN "signal:message"
    ELSE IF frame.when \notin {Undefined, 0} THEN "signal:receipt"
    ELSE "signal:typing"

\* A handler that lets the SyntaxError of JSON.parse out.
HandlerRaisesSyntaxError(frame) == frame.json = "invalid"

\* The error handleMessage raises to its caller: none, as the try block
\* holds JSON.parse and all that follows and the catch only logs.
HandlerRaises(frame) == FALSE

\* The events handleMessage emits for the n-th frame.  JSON.parse throws a
\* SyntaxError for an invalid text and reading null.envelope a TypeError.
EmittedFor(frame, n) ==
    IF frame.json \in {"invalid", "null"} THEN <<>>
    ELSE <<[topic |-> TopicFor(frame), frame |-> n,
            message |-> frame.message.text]>>

NoFrame ==
    [done |-> FALSE, frame |-> OtherFrame("invalid"), raised |-> FALSE,
     before |-> "none"]

FrameIdle ==
    /\ frameEvents = <<>>
    /\ lastFrame = NoFrame
    /\ framesHandled = 0

\* ws.on('message'): a frame arrives on the socket and handleMessage runs.
\* An error raised by the handler is an unhandled rejection and ends the
\* process.
HandleMessage ==
    /\ sock \in {"open", "closing"}
    /\ ~lastFrame.raised
    /\ framesHandled < MaxFrames
    /\ \E frame \in Frames :
         /\ frameEvents' =
              IF HandlerRaises(frame) THEN frameEvents
              ELSE frameEvents \o EmittedFor(frame, framesHandled + 1)
         /\ lastFrame' = [done |-> TRUE, frame |-> frame,
                          raised |-> HandlerRaises(frame),
                          before |-> IF lastFrame.done
                                     THEN lastFrame.frame.json ELSE "none"]
    /\ framesHandled' = framesHandled + 1
    /\ UNCHANGED <<chunkVars, now, connVars, dedupVars, consVars, routerVars,
                   mentionVars, sendVars>>

FrameNext ==
    \/ OnStart
    \/ WsOpen
    \/ WsClose
    \/ OnStop
    \/ HandleMessage

(***************************************************************************)
(* The specifications, one per component.                                  *)
(***************************************************************************)
InitChunk == ChunkInit /\ now = StartTime /\ ConnIdle /\ DedupInit /\ ConsIdle
    /\ RouterIdle /\ MentionIdle /\ SendIdle /\ FrameIdle

SpecChunk == InitChunk /\ [][ChunkNext]_vars

InitConn == ChunkIdle /\ now = StartTime /\ ConnInit /\ DedupInit /\ ConsIdle
    /\ RouterIdle /\ MentionIdle /\ SendIdle /\ FrameIdle

SpecConn == InitConn /\ [][ConnNext]_vars

InitFail == ChunkIdle /\ now = StartTime /\ ConnInit /\ DedupInit /\ ConsIdle
    /\ RouterIdle /\ MentionIdle /\ SendIdle /\ FrameIdle

SpecFail == InitFail /\ [][FailNext]_vars /\ FailFairness

InitDedup == ChunkIdle /\ now = StartTime /\ ConnIdle /\ DedupInit /\ ConsIdle
    /\ RouterIdle /\ MentionIdle /\ SendIdle /\ FrameIdle

SpecDedup == InitDedup /\ [][DedupNext]_vars

InitCons == ChunkIdle /\ now = StartTime /\ ConnIdle /\ DedupInit /\ ConsInit
    /\ RouterIdle /\ MentionIdle /\ SendIdle /\ FrameIdle

SpecCons == InitCons /\ [][ConsNext]_vars

InitArrival ==
    ChunkIdle /\ now = StartTime /\ ConnIdle /\ DedupInit /\ ArrivalInit
    /\ RouterIdle /\ MentionIdle /\ SendIdle /\ FrameIdle

SpecArrival == InitArrival /\ [][ArrivalNext]_vars

InitRouter ==
    ChunkIdle /\ now = StartTime /\ ConnIdle /\ DedupInit /\ ConsIdle
    /\ RouterInit /\ MentionIdle /\ SendIdle /\ FrameIdle

SpecRouter == InitRouter /\ [][RouterNext]_vars

InitPolicy ==
    ChunkIdle /\ now = StartTime /\ ConnIdle /\ DedupInit /\ ConsIdle
    /\ PolicyInit /\ MentionIdle /\ SendIdle /\ FrameIdle

SpecPolicy == InitPolicy /\ [][PolicyNext]_vars

InitReplay ==
    ChunkIdle /\ now = StartTime /\ ConnIdle /\ DedupInit /\ ConsIdle
    /\ PolicyInit /\ MentionIdle /\ SendIdle /\ FrameIdle

SpecReplay == InitReplay /\ [][ReplayNext]_vars

InitPerBot ==
    ChunkIdle /\ now = StartTime /\ ConnIdle /\ DedupInit /\ ConsIdle
    /\ PolicyInit /\ MentionIdle /\ SendIdle /\ FrameIdle

SpecPerBot == InitPerBot /\ [][PerBotNext]_vars

InitSend ==
    /\ content = <<>>
    /\ maxMessageLength = ConfiguredMaxLength(SendMaxLength)
    /\ chunks = <<>>
    /\ splitDone = FALSE
    /\ now = StartTime /\ ConnIdle /\ DedupInit /\ ConsIdle
    /\ RouterIdle /\ MentionIdle /\ SendIdle /\ FrameIdle

SpecSend == InitSend /\ [][SendNext]_vars

InitFrame ==
    ChunkIdle /\ now = StartTime /\ ConnInit /\ DedupInit /\ ConsIdle
    /\ RouterIdle /\ MentionIdle /\ SendIdle /\ FrameIdle

SpecFrame == InitFrame /\ [][FrameNext]_vars

InitCap ==
    ChunkIdle /\ now = StartTime /\ ConnIdle /\ DedupInit /\ ConsIdle
    /\ PolicyInit /\ MentionIdle /\ SendIdle /\ FrameIdle

SpecCap == InitCap /\ [][CapNext]_vars

InitMention ==
    ChunkIdle /\ now = StartTime /\ ConnIdle /\ DedupInit /\ ConsIdle
    /\ RouterIdle /\ MentionInit /\ SendIdle /\ FrameIdle

SpecMention == InitMention /\ [][MentionNext]_vars

(***************************************************************************)
(* The claims about the deduplicator.                                      *)
(***************************************************************************)
\* The last call was a deduplicated one: a first delivery of a group message.
DedupCall == lastCall.called /\ lastCall.isGroupMessage
             /\ ~lastCall.isReprocessed

(***************************************************************************)
(* C1: for one group messageId, of the non-reprocessed shouldEmit calls    *)
(* made while the record is within its 10 s window, exactly one returns    *)
(* true: the first, whose bot becomes firstReceiver; every later call,     *)
(* by whichever bot, returns false and leaves the record as it is.         *)
(***************************************************************************)
C1_OneEmitterPerMessage ==
    DedupCall =>
        LET id == lastCall.messageId
        IN  /\ lastCall.prevClaimAge = Undefined =>
                  /\ lastCall.result
                  /\ id \in DOMAIN seenMessages
                  /\ seenMessages[id].firstReceiver = lastCall.botPhone
                  /\ claimedBy[id] = lastCall.botPhone
            /\ (lastCall.prevClaimAge # Undefined
                  /\ lastCall.prevClaimAge <= TTL) =>
                  /\ ~lastCall.result
                  /\ id \in DOMAIN seenMessages
                  /\ seenMessages[id].firstReceiver = claimedBy[id]
                  /\ seenMessages[id].timestamp = claimedAt[id]

\* C1's case: another bot is refused a message claimed a full TTL before,
\* after a sweep has run in between.
C1_Witness ==
    /\ DedupCall
    /\ ~lastCall.result
    /\ claimedBy[lastCall.messageId] # lastCall.botPhone
    /\ lastCall.prevClaimAge = TTL
    /\ lastCleanup > claimedAt[lastCall.messageId]

\* The step is a call of shouldEmit (the only step of the deduplicator
\* that leaves the clock alone); lastCall' holds its arguments and result.
StepIsShouldEmit == now' = now /\ lastCall'.called

(***************************************************************************)
(* C23: every call of shouldEmit for a group message with isReprocessed    *)
(* set returns true, also when the message has a record whose              *)
(* firstReceiver is another bot, and the call leaves the table of records  *)
(* (and the sweep's time stamp) as it was.                                 *)
(***************************************************************************)
C23_ReplayAlwaysEmits ==
    [][(/\ StepIsShouldEmit
        /\ lastCall'.isGroupMessage
        /\ lastCall'.isReprocessed)
          => /\ lastCall'.result
             /\ seenMessages' = seenMessages
             /\ lastCleanup' = lastCleanup]_vars

\* A replay was emitted for a message first received by another bot.
C23_Witness ==
    /\ lastCall.called
    /\ lastCall.isGroupMessage
    /\ lastCall.isReprocessed
    /\ lastCall.result
    /\ lastCall.messageId \in DOMAIN seenMessages
    /\ seenMessages[lastCall.messageId].firstReceiver # lastCall.botPhone

(***************************************************************************)
(* C24: every call of shouldEmit with isGroupMessage false returns true,   *)
(* whether or not a record of the messageId exists and however often the   *)
(* message has been presented before.                                      *)
(***************************************************************************)
C24_DirectAlwaysEmits ==
    [][StepIsShouldEmit /\ ~lastCall'.isGroupMessage => lastCall'.result]_vars

\* A direct message was emitted although its messageId was claimed before
\* and still has a record.
C24_Witness ==
    /\ lastCall.called
    /\ ~lastCall.isGroupMessage
    /\ ~lastCall.isReprocessed
    /\ lastCall.result
    /\ lastCall.messageId \in DOMAIN seenMessages
    /\ lastCall.prevClaimAge # Undefined

(***************************************************************************)
(* The claims about the consistency receptor.                              *)
(***************************************************************************)
\* Bot b is mentioned or quoted in msg, by its UUID or its phone number.
IsTargeted(msg, b) ==
    \/ \E i \in 1..Len(msg.mentions) :
          \/ msg.mentions[i].uuid = botUuids[b]
          \/ msg.mentions[i].number = b
    \/ /\ msg.quote.present
       /\ \/ msg.quote.authorUuid = botUuids[b]
          \/ msg.quote.author = b

\* The reconnectBot calls the last evaluation made for bot b.
CallsFor(b) == {i \in 1..Len(lastCheck.calls) : lastCheck.calls[i].botPhone = b}

(***************************************************************************)
(* C2: when the 2-second deadline armed at a group message's first arrival *)
(* fires, reconnectBot is invoked exactly once, with the payload stored at *)
(* the tracker's creation, for every roster bot that the message mentions  *)
(* or quotes (by UUID or phone number) and that is not in receivedBy; it   *)
(* is not invoked for a bot that is in receivedBy.                         *)
(***************************************************************************)
C2_RepairOfTargetedMissing ==
    lastCheck.done =>
        /\ lastCheck.armedDelay = 2000
        /\ \A b \in Bots :
              /\ (IsTargeted(feedMessage, b) /\ b \notin lastCheck.receivedBy) =>
                    /\ Cardinality(CallsFor(b)) = 1
                    /\ \A i \in CallsFor(b) :
                          lastCheck.calls[i].queuedMessage = lastCheck.firstPayload
              /\ b \in lastCheck.receivedBy => CallsFor(b) = {}

\* C2's case: an evaluation that repaired a quoted bot and a mentioned bot
\* and left alone a mentioned bot that had received the message.
C2_Witness ==
    /\ lastCheck.done
    /\ Len(lastCheck.calls) = 2
    /\ \E b \in lastCheck.receivedBy : IsTargeted(feedMessage, b)
    /\ \E b \in Bots : /\ CallsFor(b) # {}
                       /\ feedMessage.quote.present
                       /\ \A i \in 1..Len(feedMessage.mentions) :
                             /\ feedMessage.mentions[i].uuid # botUuids[b]
                             /\ feedMessage.mentions[i].number # b
    /\ lastCheck.firstPayload.botPhone \in lastCheck.receivedBy
    /\ Cardinality(lastCheck.receivedBy) = 1

(***************************************************************************)
(* C25: the deadline evaluation invokes reconnectBot only for bots that    *)
(* are both absent from receivedBy and mentioned or quoted by the message; *)
(* a bot that missed the message without being targeted is not             *)
(* reconnected, and an evaluation at which no bot is missing makes no      *)
(* reconnect call.                                                         *)
(***************************************************************************)
C25_OnlyTargetedMissingReconnected ==
    lastCheck.done =>
        /\ \A i \in 1..Len(lastCheck.calls) :
              /\ lastCheck.calls[i].botPhone \in Bots \ lastCheck.receivedBy
              /\ IsTargeted(feedMessage, lastCheck.calls[i].botPhone)
        /\ Bots \subseteq lastCheck.receivedBy => lastCheck.calls = <<>>

\* An evaluation that reconnected one bot and left alone another bot that
\* had missed the message without being mentioned or quoted.
C25_Witness ==
    /\ lastCheck.done
    /\ \E b \in Bots : CallsFor(b) # {}
    /\ \E b \in Bots \ lastCheck.receivedBy :
          ~IsTargeted(feedMessage, b) /\ CallsFor(b) = {}

\* The step is an arrival of the message at a connection: the clock stands
\* and no timer is consumed; lastCall' holds the deduplicator's answer.
StepIsArrival ==
    /\ now' = now
    /\ consistencyTimers \subseteq consistencyTimers'
    /\ lastCall'.called

\* The tracker of the feed's message, before and after the step.
TrackerBefore == messageTrackers[<<feedMessage.source, feedMessage.timestamp>>]
TrackerAfter == messageTrackers'[<<feedMessage.source, feedMessage.timestamp>>]

FeedMessageId == <<feedMessage.source, feedMessage.timestamp>>

\* The message's tracker was evaluated and removed before this state.
EvaluatedBefore == lastCheck.done /\ lastCheck.messageId = FeedMessageId

\* The step creates the message's tracker.
StepCreatesTracker ==
    /\ FeedMessageId \notin DOMAIN messageTrackers
    /\ FeedMessageId \in DOMAIN messageTrackers'

\* The step is the deadline evaluation of the message's tracker.
StepEvaluatesTracker ==
    /\ FeedMessageId \in DOMAIN messageTrackers
    /\ FeedMessageId \notin DOMAIN messageTrackers'

(***************************************************************************)
(* C22: a messageId's tracker is evaluated exactly once: once the deadline *)
(* evaluation has removed it, no step creates a tracker for that messageId *)
(* again and no step evaluates one again, also when an arrival of the      *)
(* message is reported after the evaluation.                               *)
(***************************************************************************)
C22_TrackerEvaluatedOnce ==
    [][EvaluatedBefore => ~StepCreatesTracker /\ ~StepEvaluatesTracker]_vars

(***************************************************************************)
(* The claims about the bot-to-bot interaction counters.                   *)
(***************************************************************************)
\* The payload of the last transform call.
LastPayload == lastTransform.payload

\* The last message processed was sent by a roster bot / by a human.
LastFromBot == lastTransform.done /\ LastPayload.source \in Bots
LastFromHuman == lastTransform.done /\ LastPayload.source \notin Bots

\* The last message processed mentions bot b, by UUID or phone number.
LastMentions(b) ==
    \E i \in 1..Len(LastPayload.mentions) :
        \/ LastPayload.mentions[i].uuid = botUuids[b]
        \/ LastPayload.mentions[i].number = b

\* The count of bot b's counter for the last message's group, in a counter
\* table.
GroupCount(counters, b) ==
    LET key == <<b, <<"signal-stream", LastPayload.groupId>>>>
    IN  IF key \in DOMAIN counters THEN counters[key] ELSE 0

\* The last message processed is a bot-to-bot mention of b in a group: sent
\* by another roster bot, delivered normally (not a replay marked as
\* reprocessed), and not yet answered by an activation of b.
BotToBotMention(b) ==
    /\ LastFromBot
    /\ LastPayload.groupId # ""
    /\ LastPayload.source # b
    /\ ~LastPayload.reprocessed
    /\ LastMentions(b)
    /\ <<b, LastPayload.timestamp>> \notin lastTransform.activationsBefore

\* Bot b has an activation for the last message processed.
LastActivated(b) == <<b, LastPayload.timestamp>> \in DOMAIN activationFacets

(***************************************************************************)
(* C3: with bot-to-bot limit L, a bot-originated group message that        *)
(* mentions bot B is granted an activation for B, and B's counter goes up  *)
(* by one, exactly when B's counter is below L; at L or above it is        *)
(* refused: no activation for B and the counter unchanged.  From counter 0 *)
(* and with no human message in between, that is L grants and then only    *)
(* refusals.                                                               *)
(***************************************************************************)
C3_GrantedBelowLimitOnly ==
    \A b \in Bots :
        BotToBotMention(b) =>
            LET before == GroupCount(lastTransform.countersBefore, b)
            IN  IF before < lastTransform.limit
                THEN /\ LastActivated(b)
                     /\ activationFacets[<<b, LastPayload.timestamp>>].reason
                            = "mention"
                     /\ GroupCount(counterFacets, b) = before + 1
                ELSE /\ ~LastActivated(b)
                     /\ GroupCount(counterFacets, b) = before

\* C3's case: with L = 1 the first bot-to-bot mention of b2 was granted and
\* the second one is refused at count 1.
C3_Witness ==
    /\ BotToBotMention("b2")
    /\ lastTransform.limit = 1
    /\ GroupCount(lastTransform.countersBefore, "b2") = 1
    /\ GroupCount(counterFacets, "b2") = 1
    /\ ~LastActivated("b2")
    /\ Cardinality(DOMAIN activationFacets) = 1

(***************************************************************************)
(* C4: after any human-originated group message is processed, whatever its *)
(* text, no roster bot has a bot-interaction counter for that group.       *)
(***************************************************************************)
C4_HumanMessageResetsCounters ==
    (LastFromHuman /\ LastPayload.groupId # "") =>
        \A b \in Bots : GroupCount(counterFacets, b) = 0

\* The limit configured now.
CurrentLimit ==
    IF config.maxBotMentionsPerConversation = Undefined THEN 10
    ELSE config.maxBotMentionsPerConversation

(***************************************************************************)
(* C5: in every reachable state every bot-interaction counter is at most   *)
(* the currently configured bot-to-bot limit.                              *)
(***************************************************************************)
C5_CountWithinCurrentLimit ==
    \A k \in DOMAIN counterFacets : counterFacets[k] <= CurrentLimit

(***************************************************************************)
(* C5 (amended): every counter is at most the largest limit configured so  *)
(* far, hence at most the current limit as long as the limit was never     *)
(* lowered, and a counter that the last message raised is at most the      *)
(* limit that was configured when that message was processed.              *)
(***************************************************************************)
C5_CountWithinLargestLimit ==
    /\ \A k \in DOMAIN counterFacets : counterFacets[k] <= maxLimitSeen
    /\ maxLimitSeen = CurrentLimit => C5_CountWithinCurrentLimit
    /\ lastTransform.done =>
          \A k \in DOMAIN counterFacets :
              (\/ k \notin DOMAIN lastTransform.countersBefore
               \/ counterFacets[k] > lastTransform.countersBefore[k])
                  => counterFacets[k] <= lastTransform.limit

\* C5's case: a counter that was raised under one limit, and the limit
\* lowered below it by a !bb command afterwards.
C5_Witness ==
    /\ \E k \in DOMAIN counterFacets : counterFacets[k] > CurrentLimit
    /\ CurrentLimit < maxLimitSeen
    /\ commandFacets # <<>>
    /\ pendingCommands = <<>>

(***************************************************************************)
(* The claims about the mention encoding.                                  *)
(***************************************************************************)
\* The offsets (0-based) of the placeholders in a text.
PlaceholderOffsets(text) == {i \in 0..(Len(text) - 1) : text[i + 1] = FFFC}

(***************************************************************************)
(* The claims about the privacy modes.  A step that processes an event is  *)
(* one that advances routerEvents; its payload is lastTransform'.payload,  *)
(* the state before it is the unprimed one.                                *)
(***************************************************************************)
\* The payload of the event the step processes.
StepPayload == lastTransform'.payload

\* The step processes a human's group message.
HumanGroupStep ==
    /\ routerEvents' # routerEvents
    /\ StepPayload.groupId # ""
    /\ StepPayload.source \notin Bots
    /\ StepPayload.sourceUuid \notin {botUuids[b] : b \in Bots}

\* The text of the payload starts with the '.' marker.
Marked(p) == p.message # <<>> /\ Head(p.message) = "."

\* The payload mentions or quotes the bot.
Targets(p, b) == isBotMentioned(b, p.mentions) \/ isBotQuoted(b, p.quote)

\* The step creates the message record of its payload.
StepStores ==
    /\ RouterMessageId(StepPayload) \notin DOMAIN messageFacets
    /\ RouterMessageId(StepPayload) \in DOMAIN messageFacets'

\* The step creates an activation of the bot for its payload.
StepActivates(b) ==
    /\ <<b, StepPayload.timestamp>> \notin DOMAIN activationFacets
    /\ <<b, StepPayload.timestamp>> \in DOMAIN activationFacets'

\* The opt-in rule for the payload p of a step, the bot that received it
\* being the candidate.
OptInRule(p) ==
    /\ StepStores <=>
          /\ RouterMessageId(p) \notin DOMAIN messageFacets
          /\ Marked(p) \/ Targets(p, p.botPhone)
    /\ (StepStores /\ Marked(p)) =>
          messageFacets'[RouterMessageId(p)].content = Trim(Tail(p.message))
    /\ (~Marked(p) /\ ~Targets(p, p.botPhone)) =>
          ~StepStores /\ ~StepActivates(p.botPhone)

GroupStep == routerEvents' # routerEvents /\ StepPayload.groupId # ""

\* The step creates no message, profile or stream record and no activation.
StepLeavesNoTrace ==
    /\ messageFacets' = messageFacets
    /\ profileFacets' = profileFacets
    /\ streamFacets' = streamFacets
    /\ activationFacets' = activationFacets

(***************************************************************************)
(* C14: in opt-out mode, processing a group message whose text starts with *)
(* '.' creates no message record, no profile record, no stream record and  *)
(* no activation, whatever the message mentions or quotes.                 *)
(***************************************************************************)
C14_OptedOutLeavesNoTrace ==
    [][(GroupStep /\ GroupPrivacyMode(config) = "opt-out"
           /\ Marked(StepPayload)) => StepLeavesNoTrace]_vars

\* The same for the messages of humans only.
HumanOptedOutLeavesNoTrace ==
    [][(HumanGroupStep /\ GroupPrivacyMode(config) = "opt-out"
           /\ Marked(StepPayload)) => StepLeavesNoTrace]_vars

\* After the step the payload's record exists, and the step has not touched
\* a record that existed before it.
StepKeepsOneRecord ==
    /\ RouterMessageId(StepPayload) \in DOMAIN messageFacets'
    /\ RouterMessageId(StepPayload) \in DOMAIN messageFacets
          => messageFacets' = messageFacets

(***************************************************************************)
(* C15 as stated: in opt-out mode, after a group message without the '.'   *)
(* marker is processed its record exists, whether or not it mentions or    *)
(* quotes a bot, and a record that existed already is left as it was (the  *)
(* message is stored once).                                                *)
(***************************************************************************)
C15_OptOutStoresUnmarked ==
    [][(GroupStep /\ GroupPrivacyMode(config) = "opt-out"
           /\ ~Marked(StepPayload)) => StepKeepsOneRecord]_vars

(***************************************************************************)
(* C15 amended: the same, for the messages of humans that are not a        *)
(* recognised command addressed to a bot.                                  *)
(***************************************************************************)
C15_OptOutStoresUnmarkedNonCommand ==
    [][(/\ HumanGroupStep
        /\ GroupPrivacyMode(config) = "opt-out"
        /\ ~Marked(StepPayload)
        /\ ~IsCommandMessage(StepPayload)) => StepKeepsOneRecord]_vars

\* In opt-out mode a message that mentions b2 was delivered by b2 and then
\* by b3: its one record is the one made for the first delivery; and a
\* message that targets no bot would be stored as well.
C15_Witness ==
    /\ GroupPrivacyMode(config) = "opt-out"
    /\ lastTransform.done
    /\ lastTransform.payload = RouterPayload(HumanMention, "b3", FALSE)
    /\ RouterMessageId(lastTransform.payload) \in DOMAIN messageFacets
    /\ messageFacets[RouterMessageId(lastTransform.payload)].botPhone = "b2"

(***************************************************************************)
(* C16: no activation has as its target bot the sender of the message that *)
(* triggered it, also when a bot's message mentions or quotes its sender   *)
(* and when the sender is known as a bot by its phone number only.         *)
(***************************************************************************)
C16_NoActivationOfSender ==
    \A k \in DOMAIN activationFacets :
        activationFacets[k].botPhone # activationFacets[k].triggeredBy[1]

\* The step processes a direct message.
DirectStep == routerEvents' # routerEvents /\ StepPayload.groupId = ""

\* After the step the payload's record exists and so does the activation of
\* the bot that received it, with reason 'dm'.
DirectRule(p) ==
    /\ RouterMessageId(p) \in DOMAIN messageFacets'
    /\ <<p.botPhone, p.timestamp>> \in DOMAIN activationFacets'
    /\ activationFacets'[<<p.botPhone, p.timestamp>>].botPhone = p.botPhone
    /\ activationFacets'[<<p.botPhone, p.timestamp>>].reason = "dm"

(***************************************************************************)
(* C17 as stated: after any direct message is processed, the bot that      *)
(* received it has an activation with reason 'dm' for it and the message   *)
(* has its record, under every privacy mode, random-reply rate and cap and *)
(* whether or not the text starts with '.'.                                *)
(***************************************************************************)
C17_DirectStoredAndAnswered ==
    [][DirectStep => DirectRule(StepPayload)]_vars

(***************************************************************************)
(* C17 amended: the same for the direct messages of humans that are not a  *)
(* recognised command with a mention of a bot.                             *)
(***************************************************************************)
C17_HumanDirectStoredAndAnswered ==
    [][(/\ DirectStep
        /\ StepPayload.source \notin Bots
        /\ StepPayload.sourceUuid \notin {botUuids[b] : b \in Bots}
        /\ ~IsCommandMessage(StepPayload)) => DirectRule(StepPayload)]_vars

\* A direct message that starts with '.' was stored, marker included, and
\* answered, in opt-out mode with a random-reply rate configured and the
\* cap reached in its conversation.
C17_Witness ==
    /\ config.groupPrivacyMode = "opt-out"
    /\ config.randomReplyChance = 2
    /\ config.maxBotMentionsPerConversation = 1
    /\ lastTransform.done
    /\ BotResponseCount(lastTransform.speechBefore,
                        StreamIdOf(lastTransform.payload)) = 1
    /\ lastTransform.payload = RouterPayload(HumanDottedDirect, "b1", FALSE)
    /\ <<"b1", HumanDottedDirect.timestamp>> \in DOMAIN activationFacets
    /\ activationFacets[<<"b1", HumanDottedDirect.timestamp>>].reason = "dm"
    /\ RouterMessageId(lastTransform.payload) \in DOMAIN messageFacets
    /\ messageFacets[RouterMessageId(lastTransform.payload)].content = TextDotHi

CapReached(p) ==
    /\ config.maxBotMentionsPerConversation # Undefined
    /\ config.maxBotMentionsPerConversation > 0
    /\ BotResponseCount(speechFacets, StreamIdOf(p))
          >= config.maxBotMentionsPerConversation

(***************************************************************************)
(* C19: once the bots' speech records of a group conversation have reached *)
(* maxBotMentionsPerConversation, processing a further message of that     *)
(* conversation creates no activation of a bot the message neither         *)
(* mentions nor quotes, and still creates the activation of a bot that a   *)
(* human's message mentions or quotes.                                     *)
(***************************************************************************)
C19_CapRefusesUntargeted ==
    [][(GroupStep /\ CapReached(StepPayload))
          => \A b \in Bots :
                /\ StepActivates(b) => Targets(StepPayload, b)
                /\ (/\ HumanGroupStep
                    /\ Targets(StepPayload, b)
                    /\ ~IsCommandMessage(StepPayload)
                    /\ ~(GroupPrivacyMode(config) = "opt-out"
                           /\ Marked(StepPayload))
                    /\ <<b, StepPayload.timestamp>>
                          \notin DOMAIN activationFacets)
                      => StepActivates(b)]_vars

\* The step creates an activation of the bot with reason 'random'.
StepActivatesAtRandom(b) ==
    /\ StepActivates(b)
    /\ activationFacets'[<<b, StepPayload.timestamp>>].reason = "random"

C21_OneRecordOneActivation ==
    [][GroupStep =>
          /\ lastTransform'.added.message
                => RouterMessageId(StepPayload) \notin DOMAIN messageFacets
          /\ \A b \in lastTransform'.added.activations :
                <<b, StepPayload.timestamp>> \notin DOMAIN activationFacets
          /\ StepStores <=> lastTransform'.added.message
          /\ \A b \in Bots :
                StepActivates(b) <=> b \in lastTransform'.added.activations]_vars

\* The message that mentions b2 was reported by b2, and then its replay,
\* marked as reprocessed, was processed: the record and the activation were
\* there and nothing was added.
C21_Witness ==
    /\ lastTransform.done
    /\ lastTransform.payload = RouterPayload(HumanMention, "b2", TRUE)
    /\ <<"b2", HumanMention.timestamp>> \in lastTransform.activationsBefore
    /\ RouterMessageId(lastTransform.payload) \in DOMAIN messageFacets
    /\ lastTransform.added = [message |-> FALSE, activations |-> {}]

(***************************************************************************)
(* C26: processing a group message that a bot sent and that is marked as   *)
(* reprocessed creates no activation, for any bot, and leaves every        *)
(* bot-interaction counter as it was.                                      *)
(***************************************************************************)
C26_ReplayedBotMessageActivatesNobody ==
    [][(/\ GroupStep
        /\ IsBotMessage(StepPayload)
        /\ StepPayload.reprocessed)
          => /\ lastTransform'.added.activations = {}
             /\ \A b \in Bots : ~StepActivates(b)
             /\ activationFacets' = activationFacets
             /\ counterFacets' = counterFacets]_vars

\* The replay of b1's message that mentions b2 was processed while b2 had
\* no activation for it and was below its limit: nothing was added.
C26_Witness ==
    /\ lastTransform.done
    /\ lastTransform.payload = RouterPayload(BotMention, "b3", TRUE)
    /\ <<"b2", BotMention.timestamp>> \notin lastTransform.activationsBefore
    /\ CounterCount(lastTransform.countersBefore, "b2",
                    StreamIdOf(lastTransform.payload))
          < MaxBotMentions(config)
    /\ <<"b2", BotMention.timestamp>> \notin DOMAIN activationFacets
    /\ counterFacets = lastTransform.countersBefore

\* The step processes the replay of a human's group message.
HumanReplayStep == HumanGroupStep /\ StepPayload.reprocessed

\* Every bot the payload mentions or quotes that has no activation for the
\* message gets one in the step.
StepActivatesTargeted ==
    \A b \in Bots :
        (/\ Targets(StepPayload, b)
         /\ <<b, StepPayload.timestamp>> \notin DOMAIN activationFacets)
            => /\ StepActivates(b)
               /\ activationFacets'[<<b, StepPayload.timestamp>>].botPhone = b

(***************************************************************************)
(* C28 as stated: when the replay of a human's group message is processed, *)
(* every bot the message mentions or quotes that has no activation for the *)
(* message in state gets one, whichever bot's connection the replayed      *)
(* payload came from.                                                      *)
(***************************************************************************)
C28_ReplayActivatesTargeted ==
    [][HumanReplayStep => StepActivatesTargeted]_vars

(***************************************************************************)
(* C28 amended: the same, for the messages that are neither a recognised   *)
(* command addressed to a bot nor opted out (a text that starts with '.'   *)
(* in opt-out mode): those create no activation, replayed or not.          *)
(***************************************************************************)
C28_ReplayActivatesTargetedUnlessExempt ==
    [][(/\ HumanReplayStep
        /\ ~IsCommandMessage(StepPayload)
        /\ ~IsOptedOut(StepPayload, config))
          => StepActivatesTargeted]_vars

\* The replay of the message that mentions b2, stored from b3's
\* connection, was processed in opt-in mode while b2 had no activation for
\* it: b2 was activated, and the message, which does not target b3, was
\* not recorded.
C28_Witness ==
    /\ lastTransform.done
    /\ lastTransform.payload = RouterPayload(HumanMention, "b3", TRUE)
    /\ GroupPrivacyMode(config) = "opt-in"
    /\ <<"b2", HumanMention.timestamp>> \notin lastTransform.activationsBefore
    /\ <<"b2", HumanMention.timestamp>> \in DOMAIN activationFacets
    /\ RouterMessageId(lastTransform.payload) \notin DOMAIN messageFacets

\* The reason the specification gives for an activation of bot b by the
\* payload p: dm, else mention, else quote, else random.
ReasonByPrecedence(p, b) ==
    IF p.groupId = "" THEN "dm"
    ELSE IF isBotMentioned(b, p.mentions) THEN "mention"
    ELSE IF isBotQuoted(b, p.quote) THEN "quote"
    ELSE "random"

(***************************************************************************)
(* C31: every activation a step adds carries the reason 'dm' for a direct  *)
(* message, otherwise 'mention' if the message mentions the activated bot, *)
(* otherwise 'quote' if it quotes that bot, otherwise 'random'; so an      *)
(* activation granted only by the random roll is never labelled 'dm',      *)
(* 'mention' or 'quote'.  Stated of the steps of either revision of the    *)
(* receptor; the per-bot revision violates it.                             *)
(***************************************************************************)
C31_ReasonFollowsPrecedence ==
    [][(routerEvents' # routerEvents /\ lastTransform'.done)
          => \A b \in lastTransform'.added.activations :
                 activationFacets'[<<b, StepPayload.timestamp>>].reason
                     = ReasonByPrecedence(StepPayload, b)]_vars

\* The step processes a message whose sender is a bot of the roster.
BotStep == routerEvents' # routerEvents /\ IsBotMessage(StepPayload)

(***************************************************************************)
(* C38: a step that processes a bot's message creates no message record,   *)
(* activates a bot only if the message mentions or quotes that bot, and,   *)
(* for a group message, only a bot whose interaction counter was below the *)
(* limit before the step.  Stated of the steps of either revision of the   *)
(* receptor; the per-bot revision violates it.                             *)
(***************************************************************************)
C38_BotMessageActivatesTargetedOnly ==
    [][BotStep =>
          /\ ~StepStores
          /\ ~lastTransform'.added.message
          /\ \A b \in lastTransform'.added.activations :
                /\ Targets(StepPayload, b)
                /\ StepPayload.groupId # "" =>
                      CounterCount(lastTransform'.countersBefore, b,
                                   StreamIdOf(StepPayload))
                          < lastTransform'.limit]_vars

(***************************************************************************)
(* C39: the text of a message record never holds the mention placeholder   *)
(* U+FFFC, in either privacy mode and also for a message that starts with  *)
(* the '.' marker.                                                         *)
(***************************************************************************)
C39_StoredTextHasNoPlaceholder ==
    \A id \in DOMAIN messageFacets :
        \A i \in 1..Len(messageFacets[id].content) :
            messageFacets[id].content[i] # FFFC

\* The speech facet of the batches with the id.
FacetById(id) == CHOOSE f \in SendFacets : f.id = id

\* The mention list sendSpeech detects in a facet's text: that of
\* detectMentions for a group stream, empty for a direct one.
DetectedMentions(facet) ==
    IF SendStreams[facet.streamId].isGroupChat
    THEN detectMentions(Trim(StripSpeakerPrefix(facet.content)), <<>>).mentions
    ELSE <<>>

\* The requests posted for the facet with the id, in order.
PostedFor(id) == SelectSeq(posted, LAMBDA r : r.facet = id)

(***************************************************************************)
(* C32: of the requests posted for a speech facet, the first carries the   *)
(* whole mention list detected in the facet's text and every later one     *)
(* carries none; so a message sent as a single chunk carries the whole     *)
(* list.                                                                   *)
(***************************************************************************)
C32_MentionsOnFirstChunkOnly ==
    \A k \in 1..Len(posted) :
        posted[k].mentions =
            IF posted[k].index = 1
            THEN DetectedMentions(FacetById(posted[k].facet))
            ELSE <<>>

\* A call posted a split message with a mention, its second chunk
\* included, and a single-chunk message with a mention.
C32_Witness ==
    /\ \E k \in 1..Len(posted) :
          /\ posted[k].facet = "f4"
          /\ posted[k].index = 2
    /\ PostedFor("f4")[1].mentions # <<>>
    /\ Len(PostedFor("f7")) = 1
    /\ PostedFor("f7")[1].mentions # <<>>
    /\ lastProcess.returned

\* sendSpeech reaches its send loop for the facet.
Sendable(facet) == PrepareSend(facet, {}, FALSE).sending.active

\* The send-error events of the call that carry the facet's id.
ErrorEventsFor(id) ==
    SelectSeq(sendEvents,
              LAMBDA e : e.topic = "signal:send-error" /\ e.facetId = id)

(***************************************************************************)
(* C33: a failed request is the last request posted for its facet (no      *)
(* later chunk, no second attempt); the call has exactly one               *)
(* 'signal:send-error' event with the id of a facet one of whose requests  *)
(* failed and none for any other facet; and when the call returns, every   *)
(* facet of the batch that has something to send has had a request, also   *)
(* those after a facet whose send failed.                                  *)
(***************************************************************************)
C33_FailedSendStopsFacetOnly ==
    /\ \A k \in 1..Len(posted) :
          ~posted[k].ok =>
              \A j \in (k + 1)..Len(posted) :
                  posted[j].facet # posted[k].facet
    /\ \A f \in SendFacets :
          Len(ErrorEventsFor(f.id)) =
              IF \E k \in 1..Len(posted) :
                     posted[k].facet = f.id /\ ~posted[k].ok
              THEN 1 ELSE 0
    /\ lastProcess.returned =>
          \A i \in 1..Len(lastProcess.changes) :
              Sendable(lastProcess.changes[i]) =>
                  PostedFor(lastProcess.changes[i].id) # <<>>

\* A call has returned whose first facet has several chunks and failed at
\* the first, and whose second facet was sent.
C33_Witness ==
    /\ lastProcess.returned
    /\ Len(lastProcess.changes) = 2
    /\ lastProcess.changes[1].id = "f4"
    /\ lastProcess.changes[2].id = "f1"
    /\ Len(PostedFor("f4")) = 1
    /\ ~PostedFor("f4")[1].ok
    /\ Len(PrepareSend(FacetById("f4"), {}, FALSE).sending.pieces) > 1
    /\ sendEvents = <<[topic |-> "signal:send-error", facetId |-> "f4"]>>
    /\ Len(PostedFor("f1")) = 1
    /\ PostedFor("f1")[1].ok

(***************************************************************************)
(* C40: no request is posted with an empty message text; a speech facet    *)
(* whose content is empty, or is empty once the speaker prefix is stripped *)
(* and the text trimmed, has no request.                                   *)
(***************************************************************************)
C40_NoEmptyMessagePosted ==
    \A k \in 1..Len(posted) : posted[k].message # <<>>

\* The step handles a frame.
FrameStep == framesHandled' # framesHandled

\* The frame the step handles.
StepFrame == lastFrame'.frame

\* The frame has no message text, no attachments, no receipt and no typing
\* notification.
EmptyFrame(frame) ==
    /\ ~frame.message.present
    /\ frame.attachments = "absent"
    /\ frame.when = Undefined
    /\ frame.typing = "absent"

(***************************************************************************)
(* C34: handling a frame that has neither message text nor attachments and *)
(* is neither a receipt nor a typing notification emits no event.          *)
(***************************************************************************)
C34_EmptyFrameDropped ==
    [][(FrameStep /\ EmptyFrame(StepFrame)) => frameEvents' = frameEvents]_vars

(***************************************************************************)
(* C35: handling a frame that is not valid JSON emits no event, leaves     *)
(* connected, retryCount and firstReconnectAttempt as they were and raises *)
(* no error out of the handler; and the frames after it are handled: the   *)
(* handler can still run on the socket and emits the event of a message    *)
(* frame.                                                                  *)
(***************************************************************************)
C35_InvalidJsonIgnored ==
    /\ [][(FrameStep /\ StepFrame.json = "invalid") =>
             /\ frameEvents' = frameEvents
             /\ UNCHANGED <<connected, retryCount, firstReconnectAttempt>>
             /\ ~lastFrame'.raised]_vars
    /\ [][(FrameStep /\ lastFrame.done /\ lastFrame.frame.json = "invalid"
           /\ StepFrame.json = "object" /\ StepFrame.message.present) =>
             frameEvents' =
                 Append(frameEvents,
                        [topic |-> "signal:message",
                         frame |-> framesHandled + 1,
                         message |-> StepFrame.message.text])]_vars
    /\ []((/\ lastFrame.done
           /\ lastFrame.frame.json = "invalid"
           /\ sock = "open"
           /\ framesHandled < MaxFrames) => ENABLED HandleMessage)

\* A frame that is not valid JSON was handled on the connected socket and
\* emitted nothing, and the message frame after it emitted its event.
C35_Witness ==
    /\ framesHandled = 2
    /\ lastFrame.before = "invalid"
    /\ lastFrame.frame.json = "object"
    /\ ~lastFrame.raised
    /\ connected
    /\ frameEvents = <<[topic |-> "signal:message", frame |-> 2,
                        message |-> <<"h", "i">>]>>

\* The payload of the step as another bot's connection reports it.
ReportedBy(p, b) == [p EXCEPT !.botPhone = b]

\* Whether transform, called in the state before the step with the payload
\* p, adds the message record.
WouldStore(p) ==
    /\ ~IsCommandMessage(p)
    /\ ~IsOptedOut(p, config)
    /\ RouterMessageId(p) \notin DOMAIN messageFacets
    /\ StoreInHistory(p, config)

(***************************************************************************)
(* C37: a step that processes a group message stores its record if and     *)
(* only if the roster-wide receptor, in the same state, would store it for *)
(* the report of any other bot's connection, and with the same text: the   *)
(* bot of the payload has no influence on what the history holds.          *)
(***************************************************************************)
C37_StorageIndependentOfReceiver ==
    [][GroupStep =>
          \A b \in Bots :
              /\ StepStores <=> WouldStore(ReportedBy(StepPayload, b))
              /\ StepStores =>
                    messageFacets'[RouterMessageId(StepPayload)].content =
                        ProcessedMessage(ReportedBy(StepPayload, b), config,
                                         profileFacets)]_vars

(***************************************************************************)
(* C11: the text detectMentions returns has a placeholder at the start     *)
(* offset of every mention record it returns, and the records and the      *)
(* placeholders of the text correspond one to one.                         *)
(***************************************************************************)
C11_RecordsPointAtPlaceholders ==
    mentionStage # "input" =>
        /\ \A i \in 1..Len(encoded.mentions) :
              encoded.mentions[i].start \in PlaceholderOffsets(encoded.text)
        /\ \A i, j \in 1..Len(encoded.mentions) :
              i # j => encoded.mentions[i].start # encoded.mentions[j].start
        /\ Cardinality(PlaceholderOffsets(encoded.text)) = Len(encoded.mentions)

\* A name of the table stands at 0-based offset i of text, followed by a
\* boundary character or the end of the text.
NameAt(text, i, profiles) ==
    \E k \in 1..Len(NameToPhone(profiles)) :
        LET name == NameToPhone(profiles)[k].name
        IN  /\ i + Len(name) <= Len(text)
            /\ SubSeq(text, i + 1, i + Len(name)) = name
            /\ (i + Len(name) < Len(text)
                   => text[i + Len(name) + 1] \in BoundaryChars)

\* Every @ of the text starts a mention of a name of the table that can be
\* resolved inbound by its number, and the text has no whitespace at its
\* ends.
WellFormedMentionText(text, profiles) ==
    /\ \A i \in 1..Len(text) : text[i] = "@" => NameAt(text, i, profiles)
    /\ text = Trim(text)
    /\ profiles = <<>>

(***************************************************************************)
(* C12: a text whose @name occurrences all name entries of the table and   *)
(* are each followed by a boundary character or the end of the text is     *)
(* reproduced by encoding it with detectMentions and decoding the result   *)
(* with the inbound mention replacement.                                   *)
(***************************************************************************)
C12_EncodeDecodeIsIdentity ==
    (mentionStage = "decoded" /\ WellFormedMentionText(mentionInput, mentionProfiles))
        => decoded = mentionInput

(***************************************************************************)
(* The claims about the reconnection policy.                               *)
(***************************************************************************)

\* The delay the k-th attempt (k = 0, 1, ...) of a retry sequence must have.
ExpectedDelay(k) ==
    IF k >= 5 THEN 30000 ELSE 1000 * 2 ^ k

\* The step runs the close handler, the open handler, the give-up branch.
StepIsClose == closesSinceOpen' = closesSinceOpen + 1
StepIsOpen == sock = "connecting" /\ sock' = "open"
StepGivesUp == errorEvents' = errorEvents + 1

(***************************************************************************)
(* C29: firstReconnectAttempt is assigned only by the first close after    *)
(* the start or after an open, which sets it to the time of that close,    *)
(* and every later close of the retry sequence that schedules an attempt   *)
(* leaves it as it is; an open and the give-up both clear it and set       *)
(* retryCount to 0, and no other step clears it or lowers retryCount.      *)
(***************************************************************************)
C29_FirstAttemptAssignedOnce ==
    [][/\ (/\ firstReconnectAttempt' # firstReconnectAttempt
           /\ firstReconnectAttempt' # Undefined)
             => /\ StepIsClose
                /\ closesSinceOpen = 0
                /\ firstReconnectAttempt = Undefined
                /\ firstReconnectAttempt' = now
       /\ (StepIsClose /\ closesSinceOpen > 0 /\ ~StepGivesUp)
             => /\ firstReconnectAttempt' = firstReconnectAttempt
                /\ firstReconnectAttempt' = firstCloseAt
       /\ (StepIsOpen \/ StepGivesUp)
             => retryCount' = 0 /\ firstReconnectAttempt' = Undefined
       /\ (\/ retryCount' < retryCount
           \/ (/\ firstReconnectAttempt # Undefined
               /\ firstReconnectAttempt' = Undefined))
             => StepIsOpen \/ StepGivesUp]_vars

\* Three closes into a retry sequence the stamp is still that of the first
\* close, which lies in the past.
C29_Witness ==
    /\ closesSinceOpen >= 3
    /\ retryCount >= 2
    /\ firstReconnectAttempt = firstCloseAt
    /\ firstReconnectAttempt < now
    /\ reconnectTimers # {}

(***************************************************************************)
(* C30: when no reconnect attempt succeeds, a connection that has closed   *)
(* leads to the non-recoverable error being emitted, after which no timer  *)
(* is pending and no further attempt, timer or error follows.              *)
(***************************************************************************)
C30_RetriesEnd ==
    /\ (closesSinceOpen > 0) ~> (errorEvents > 0 /\ reconnectTimers = {})
    /\ [][errorEvents > 0 =>
             /\ reconnectTimers' = {}
             /\ retryCount' = retryCount
             /\ errorEvents' = errorEvents
             /\ sock' = sock]_vars

\* The afferent has given up on the default window of five minutes, after
\* more than ten failed attempts.
C30_Witness ==
    /\ errorEvents = 1
    /\ maxReconnectTime = DefaultMaxReconnectTime
    /\ closesSinceOpen > 10
    /\ reconnectTimers = {}
    /\ sock = "closed"
    /\ now - firstCloseAt >= DefaultMaxReconnectTime

\* The step calls connect(): a new WebSocket is made and held.
StepConnects == sock' = "connecting" /\ (sock # "connecting" \/ wsRef' # wsRef)

(***************************************************************************)
(* C36: after onStop no step makes a connection attempt and no step        *)
(* schedules a reconnect: the close event of the socket onStop closed      *)
(* arms no backoff timer and a timer pending at the stop opens nothing.    *)
(***************************************************************************)
C36_NoConnectAfterStop ==
    [][stopped => /\ ~StepConnects
                  /\ reconnectTimers' \subseteq reconnectTimers]_vars

(***************************************************************************)
(* C6: within an unbroken sequence of failed reconnects the k-th scheduled *)
(* attempt (k = 0, 1, 2, ...) has delay min(1000 * 2^k, 30000) ms, that    *)
(* is 1000, 2000, 4000, 8000, 16000, 30000, 30000, ...; retryCount is the  *)
(* number of attempts made (one more is pending while a timer is armed),   *)
(* and no delay exceeds 30000 ms.                                          *)
(***************************************************************************)
C6_BackoffSequence ==
    /\ \A i \in 1..Len(scheduledDelays) :
          /\ scheduledDelays[i] = ExpectedDelay(i - 1)
          /\ scheduledDelays[i] <= 30000
    /\ \A t \in reconnectTimers : t.delay <= 30000
    /\ retryCount = Len(scheduledDelays) - Cardinality(reconnectTimers)

\* C6's case: a sequence long enough to have reached the cap twice.
C6_Witness ==
    /\ Len(scheduledDelays) >= 7
    /\ scheduledDelays[6] = 30000
    /\ scheduledDelays[7] = 30000
    /\ retryCount = 6

\* A close event is being handled in this step.
CloseHandled == sock \in {"connecting", "open", "closing"} /\ sock' = "closed"

\* The time elapsed, when this close is handled, since the first drop of the
\* current retry sequence (0 when this drop is the first).
SinceFirstDrop == IF closesSinceOpen = 0 THEN 0 ELSE now - firstCloseAt

(***************************************************************************)
(* C7: a drop handled at least maxReconnectTime after the first drop of    *)
(* the current retry sequence emits one 'afferent:error' (recoverable:     *)
(* false), resets retryCount to 0, clears firstReconnectAttempt and arms   *)
(* no timer; a drop handled earlier arms exactly one reconnect timer and   *)
(* emits no error.                                                         *)
(***************************************************************************)
C7_GiveUpAfterWindow ==
    [][CloseHandled =>
         IF SinceFirstDrop >= maxReconnectTime
         THEN /\ errorEvents' = errorEvents + 1
              /\ retryCount' = 0
              /\ firstReconnectAttempt' = Undefined
              /\ reconnectTimers' = reconnectTimers
              /\ reconnectTimers' = {}
         ELSE /\ errorEvents' = errorEvents
              /\ Cardinality(reconnectTimers') = 1
              /\ reconnectTimers = {}]_vars

\* C7's case: the afferent gave up after several attempts of one sequence.
C7_Witness ==
    /\ errorEvents = 1
    /\ closesSinceOpen >= 3
    /\ now - firstCloseAt >= maxReconnectTime
    /\ reconnectTimers = {}
    /\ retryCount = 0

\* The concatenation of a sequence of strings.
RECURSIVE Concat(_)
Concat(ss) == IF ss = <<>> THEN <<>> ELSE Head(ss) \o Concat(Tail(ss))

IsNotWhitespace(c) == c \notin Whitespace

\* s with every whitespace character deleted.
StripWhitespace(s) == SelectSeq(s, IsNotWhitespace)

(***************************************************************************)
(* C8: every chunk splitMessage returns has length at most maxLength, for  *)
(* every text and every maxLength >= 1.  The code breaks this: a ". " found *)
(* at index maxLength makes the cut at maxLength + 2, and the chunk keeps   *)
(* maxLength + 1 characters after the trim.                                 *)
(***************************************************************************)
C8_ChunksWithinMaxLength ==
    splitDone => \A i \in 1..Len(chunks) : Len(chunks[i]) <= maxMessageLength

(***************************************************************************)
(* C9: splitMessage returns no empty chunk for a non-empty text, and        *)
(* exactly one empty chunk for the empty text.  The code breaks the first   *)
(* half for a text longer than maxLength that starts with a run of          *)
(* whitespace reaching the break point.                                     *)
(***************************************************************************)
C9_NoEmptyChunk ==
    splitDone =>
        /\ content # <<>> => \A i \in 1..Len(chunks) : chunks[i] # <<>>
        /\ content = <<>> => chunks = << <<>> >>

(***************************************************************************)
(* C10: the chunks, concatenated in order and stripped of whitespace, are   *)
(* the text stripped of whitespace: no other character is lost, repeated    *)
(* or moved.                                                                *)
(***************************************************************************)
C10_ChunksKeepNonWhitespace ==
    splitDone => StripWhitespace(Concat(chunks)) = StripWhitespace(content)

\* C10's case: a text cut into several chunks with whitespace trimmed away.
C10_Witness ==
    /\ splitDone
    /\ Len(chunks) >= 3
    /\ Len(Concat(chunks)) < Len(content)
    /\ StripWhitespace(content) # <<>>

=============================================================================
